---- MODULE Spec2Model ----
(***************************************************************************)
(* Model of descript/bootstrap-electron.py and descript/build-electron.py: *)
(* the two entry points, their stages, the external commands they invoke   *)
(* and the files they leave behind.  Strings are real strings: names and   *)
(* paths are computed character by character, as the Python code does.     *)
(***************************************************************************)
EXTENDS Naturals, Sequences, FiniteSets, TLC

(***************************************************************************)
(* String helpers: the Python library functions the scripts use.           *)
(***************************************************************************)

\* s[i-1:i] of Python, 1-based
Ch(s, i) == SubSeq(s, i, i)

MinOf(S) == CHOOSE m \in S : (m - 1) \notin S /\ \A j \in S : m <= j
MaxOf(S) == CHOOSE m \in S : (m + 1) \notin S /\ \A j \in S : j <= m

IsSpace(c) == c \in {" ", "\n", "\t", "\r"}

\* the first position from i on that holds no white space, Len(s) + 1 for none
RECURSIVE SkipSpace(_, _)
SkipSpace(s, i) == IF i <= Len(s) /\ IsSpace(Ch(s, i)) THEN SkipSpace(s, i + 1) ELSE i

\* the last position up to i that holds no white space, 0 for none
RECURSIVE SkipSpaceBack(_, _)
SkipSpaceBack(s, i) == IF i >= 1 /\ IsSpace(Ch(s, i)) THEN SkipSpaceBack(s, i - 1) ELSE i

\* str.lstrip()
LStrip(s) == SubSeq(s, SkipSpace(s, 1), Len(s))

\* str.rstrip()
RStrip(s) == SubSeq(s, 1, SkipSpaceBack(s, Len(s)))

\* str.strip()
Strip(s) == LStrip(RStrip(s))

\* str.startswith
StartsWith(s, p) == Len(p) <= Len(s) /\ SubSeq(s, 1, Len(p)) = p

\* str.find(sub, i): index (1-based) of the first sub at or after i, 0 when there is none
FindFrom(s, sub, i) ==
    LET at == {j \in i..(Len(s) + 1 - Len(sub)) : SubSeq(s, j, j + Len(sub) - 1) = sub} IN
    IF at = {} THEN 0 ELSE MinOf(at)

\* str.rfind(c, 0, i): index (1-based) of the last c at or before i, 0 when there is none
RFindFrom(s, c, i) ==
    LET at == {j \in 1..i : Ch(s, j) = c} IN
    IF at = {} THEN 0 ELSE MaxOf(at)

UpperLetters == "ABCDEFGHIJKLMNOPQRSTUVWXYZ"
LowerLetters == "abcdefghijklmnopqrstuvwxyz"

\* str.lower() of one character
LowerCh(c) ==
    LET i == FindFrom(UpperLetters, c, 1) IN IF i > 0 THEN Ch(LowerLetters, i) ELSE c

\* str.lower(), the string taken in halves
RECURSIVE Lower(_)
Lower(s) ==
    IF Len(s) = 0 THEN ""
    ELSE IF Len(s) = 1 THEN LowerCh(s)
    ELSE Lower(SubSeq(s, 1, Len(s) \div 2)) \o Lower(SubSeq(s, Len(s) \div 2 + 1, Len(s)))

\* f.readlines(): the text cut after each newline
RECURSIVE ReadLines(_)
ReadLines(text) ==
    IF Len(text) = 0 THEN <<>>
    ELSE LET n == FindFrom(text, "\n", 1) IN
         IF n = 0 THEN <<text>>
         ELSE <<SubSeq(text, 1, n)>> \o ReadLines(SubSeq(text, n + 1, Len(text)))

\* os.path.join(a, b) for a relative b
PathJoin(a, b) ==
    IF Len(a) = 0 \/ Ch(a, Len(a)) = "/" THEN a \o b ELSE a \o "/" \o b

\* os.path.basename
Basename(p) == SubSeq(p, RFindFrom(p, "/", Len(p)) + 1, Len(p))

\* os.path.dirname
Dirname(p) ==
    LET i == RFindFrom(p, "/", Len(p)) IN
    IF i = 0 THEN "" ELSE IF i = 1 THEN "/" ELSE SubSeq(p, 1, i - 1)

\* the first index after the leading dots of the base name that starts at b
RECURSIVE SkipDots(_, _)
SkipDots(p, b) == IF b <= Len(p) /\ Ch(p, b) = "." THEN SkipDots(p, b + 1) ELSE b

\* os.path.splitext(p)[0]: p cut before the last dot of its base name, leading
\* dots of the base name not counted
SplitextRoot(p) ==
    LET sep == RFindFrom(p, "/", Len(p))
        dot == RFindFrom(p, ".", Len(p))
    IN  IF dot > sep /\ SkipDots(p, sep + 1) < dot THEN SubSeq(p, 1, dot - 1) ELSE p

\* pathlib.PurePath.parts for a POSIX path: the root, then the components
\* the components of p after position s, seps being the positions of its
\* separators and of its end; empty components and "." are dropped
RECURSIVE PartsFrom(_, _, _)
PartsFrom(p, seps, s) ==
    IF s > Len(p) THEN <<>>
    ELSE LET t     == MinOf({u \in seps : u > s})
             piece == SubSeq(p, s + 1, t - 1)
         IN  (IF piece = "" \/ piece = "." THEN <<>> ELSE <<piece>>) \o PartsFrom(p, seps, t)

SplitParts(p) == PartsFrom(p, {j \in 1..Len(p) : Ch(p, j) = "/"} \cup {Len(p) + 1}, 0)

PathParts(p) == (IF StartsWith(p, "/") THEN <<"/">> ELSE <<>>) \o SplitParts(p)

\* pathlib.PurePath.stem: the final component without its last suffix
PathStem(p) ==
    LET parts == PathParts(p)
        name  == IF Len(parts) = 0 \/ parts = <<"/">> THEN "" ELSE parts[Len(parts)]
        i     == RFindFrom(name, ".", Len(name))
    IN  IF 1 < i /\ i < Len(name) THEN SubSeq(name, 1, i - 1) ELSE name

\* tuple.index(x): 1-based position of the first x, 0 for ValueError
RECURSIVE IndexFrom(_, _, _)
IndexFrom(seq, x, i) ==
    IF i > Len(seq) THEN 0
    ELSE IF seq[i] = x THEN i
    ELSE IndexFrom(seq, x, i + 1)

IndexOf(seq, x) == IndexFrom(seq, x, 1)

\* os.path.join(*parts)
RECURSIVE JoinParts(_)
JoinParts(parts) ==
    IF Len(parts) = 0 THEN ""
    ELSE IF Len(parts) = 1 THEN parts[1]
    ELSE PathJoin(JoinParts(SubSeq(parts, 1, Len(parts) - 1)), parts[Len(parts)])

\* the characters of the model's strings in ASCII order, for comparing strings
Alphabet ==
    "\t\n *-./0123456789:@ABCDEFGHIJKLMNOPQRSTUVWXYZ_abcdefghijklmnopqrstuvwxyz~"

CharRank(c) == FindFrom(Alphabet, c, 1)

\* a < b for Python strings
StrLess(a, b) ==
    LET n == IF Len(a) < Len(b) THEN Len(a) ELSE Len(b)
        differ == {i \in 1..n : Ch(a, i) # Ch(b, i)}
    IN  IF differ = {} THEN Len(a) < Len(b)
        ELSE CharRank(Ch(a, MinOf(differ))) < CharRank(Ch(b, MinOf(differ)))

\* s repeated n times
RECURSIVE Rep(_, _)
Rep(s, n) ==
    IF n = 0 THEN ""
    ELSE IF n = 1 THEN s
    ELSE LET half == Rep(s, n \div 2) IN
         half \o half \o (IF n % 2 = 1 THEN s ELSE "")

\* str.replace(old, new): every occurrence, left to right
RECURSIVE Replace(_, _, _)
Replace(s, old, new) ==
    LET i == IF Len(old) = 0 THEN 0 ELSE FindFrom(s, old, 1) IN
    IF i = 0 THEN s
    ELSE SubSeq(s, 1, i - 1) \o new \o Replace(SubSeq(s, i + Len(old), Len(s)), old, new)

\* whether path p lies strictly below directory d
Below(p, d) == StartsWith(p, PathJoin(d, "")) /\ Len(p) > Len(PathJoin(d, ""))

(***************************************************************************)
(* Program constants and the bounded inputs of the model.                  *)
(***************************************************************************)

\* build-electron.py: cwd, the directory of the script
ScriptDir == "/repo/descript"

\* build-electron.py main: output_dir
OutDir == PathJoin(ScriptDir, "out")

\* readVersion: ../ELECTRON_VERSION
VersionFile == PathJoin(Dirname(ScriptDir), "ELECTRON_VERSION")

descript_electron_fork == "https://github.com/descriptinc/electron.git"
descript_electron_fork_ssh == "git@github.com:descriptinc/electron.git"
descript_default_branch == "release/15.3.1/libuv-use-posix-spawn.0"
electron_build_tools_module == "@electron/build-tools"

\* the remote a fresh checkout of the vendored framework points to
UpstreamUrl == "https://github.com/electron/electron"

\* what `which e` prints when the tool is installed
ToolPath == "/usr/local/bin/e"
HomeDir == "/home/u"

\* contents of the version file that the runs are checked with
VersionTexts == {"13.1.6\n", " 15.3.1 \nnext\n", ""}
Machines == {"x86_64", "arm64"}
Platforms == {"darwin", "linux"}

\* configuration roots the toolchain may already hold ("" for none)
ConfiguredRoots == {"", "/w/e1"}

\* the largest number of files a build leaves beside the executable
MaxExtraFiles == 1

MachO == "Mach-O 64-bit executable x86_64"
MachOLib == "Mach-O 64-bit dynamically linked shared library x86_64"
PlainText == "ASCII text"

\* executables a build may report, relative to its output directory
ExeNames ==
    { "Foo.app/Contents/MacOS/Foo",
      "Foo.framework/Foo",
      "bin/Foo",
      "Foo.app" }

\* other files a build may leave, relative to its output directory
ExtraFiles ==
    { [path |-> "Foo.app/Contents/Info.plist", link |-> FALSE, type |-> PlainText],
      [path |-> "Foo.app/Contents/MacOS/helper", link |-> FALSE, type |-> MachO],
      [path |-> "Foo.app/Contents/Frameworks/Bar.framework/Bar", link |-> FALSE, type |-> MachOLib],
      [path |-> "Foo.app/Contents/Frameworks/Foo.dylib", link |-> FALSE, type |-> MachOLib],
      [path |-> "Foo.app/Contents/MacOS/Foo-link", link |-> TRUE, type |-> MachO] }

VARIABLES
    script,     \* which entry point runs, or which function a harness calls
    pc,         \* the position of the run in the script
    status,     \* "running", "ok" (main returned) or "failed" (an exception left main)
    err,        \* the exception that ended the run, "" for none
    host,       \* [platform, machine]: sys.platform and platform.machine()
    cwd,        \* the working directory of the process
    dirs,       \* the directories that exist
    files,      \* the regular files that exist: path -> content
    staging,    \* the symbol staging directory: symbol name -> image it was extracted from
    manifest,   \* the lines written to SHAMSUM256.txt
    calls,      \* the external commands invoked, in order
    log,        \* the command lines written to the log (build) or printed (bootstrap)
    onPath,     \* whether `which e` finds the toolchain
    cfgRoot,    \* the root of the toolchain's current configuration, "" for none
    remotes,    \* git repository -> [url, pushurl] of its remote origin
    built,      \* what the last build produced: [exe, tree]
    io,         \* the prompts shown and the answers given, in order
    loc         \* the local variables of the running functions

vars == <<script, pc, status, err, host, cwd, dirs, files, staging, manifest,
          calls, log, onPath, cfgRoot, remotes, built, io, loc>>

fsVars == <<dirs, files, staging, manifest>>
envVars == <<host, onPath, cfgRoot, remotes, built>>
runVars == <<script, status, err>>

NoLocals ==
    [ throw |-> TRUE, tools |-> "", root |-> "", offer |-> TRUE, force |-> FALSE,
      caught |-> FALSE, path |-> "", config |-> "", fork |-> "", branch |-> "",
      branches |-> {}, logpath |-> "", outdir |-> "", exe |-> "", scan |-> "",
      pending |-> {}, images |-> {}, todo |-> {}, archived |-> {}, folder |-> "", sums |-> {},
      ncalls |-> 0,
      returned |-> <<>> ]

EmptyMap == [p \in {} |-> ""]

\* an exception leaves main: the interpreter prints it and exits with status 1
Fail(e) == status' = "failed" /\ err' = e /\ pc' = "exit"

\* the exit status of the process, once it has ended
ExitStatus == IF status = "ok" THEN 0 ELSE 1

\* a subprocess is run to its end: the command line and whether it exited with 0
Run(cmd, ok) == calls' = Append(calls, [cmd |-> cmd, ok |-> ok])

\* the entries of directory d
Entries(d) == {p \in dirs \cup DOMAIN files : Dirname(p) = d}

\* shutil.rmtree(d): d and everything below it
RmtreeDirs(d) == {x \in dirs : x # d /\ ~Below(x, d)}
RmtreeFiles(d) == [p \in {q \in DOMAIN files : ~Below(q, d)} |-> files[p]]

\* the repository git works on in directory d, "" when d is in none
RepoAt(d) ==
    LET rs == {r \in DOMAIN remotes : r = d \/ Below(d, r)} IN
    IF rs = {} THEN "" ELSE CHOOSE r \in rs : \A q \in rs : Len(q) <= Len(r)

(***************************************************************************)
(* build-electron.py                                                       *)
(***************************************************************************)

readVersion ==
    LET lines == ReadLines(files[VersionFile]) IN
    IF Len(lines) = 0 THEN "" ELSE Strip(lines[1])

\* the machine name used as it is
getProcessorArch_raw == host.machine

getProcessorArch == IF host.machine = "x86_64" THEN "x64" ELSE host.machine

\* the f-string shared by the three artifact names
ArtifactStem == "electron-v" \o readVersion \o "-" \o host.platform \o "-" \o getProcessorArch

\* main, lines 384-390: a fresh output directory, then chdir to the script
build_main_prepare ==
    /\ script = "build" /\ pc = "main"
    /\ \E removed \in BOOLEAN :
         IF OutDir \in dirs /\ ~removed
         THEN \* rmtree(ignore_errors=True) left the tree: makedirs raises
              Fail("FileExistsError") /\ UNCHANGED <<cwd, dirs, files>>
         ELSE /\ dirs' = RmtreeDirs(OutDir) \cup {OutDir}
              /\ files' = RmtreeFiles(OutDir)
              /\ cwd' = ScriptDir
              /\ pc' = "b_openlog"
              /\ UNCHANGED <<status, err>>
    /\ UNCHANGED <<script, envVars, staging, manifest, calls, log, io, loc>>

\* main, lines 392-398: the log file is created in the output directory
build_main_openlog ==
    /\ script = "build" /\ pc = "b_openlog"
    /\ IF VersionFile \notin DOMAIN files
       THEN Fail("FileNotFoundError") /\ UNCHANGED <<files, loc>>
       ELSE LET path == PathJoin(OutDir, ArtifactStem \o "-log.txt") IN
            /\ files' = (path :> "rawlog") @@ files
            /\ loc' = [loc EXCEPT !.logpath = path]
            /\ pc' = "gt_which"
            /\ UNCHANGED <<status, err>>
    /\ UNCHANGED <<script, envVars, cwd, dirs, staging, manifest, calls, log, io>>

\* installElectronBuildTools, line 65: args
InstallCommand == "yarn global add " \o electron_build_tools_module \o "@1.0.4"

\* an installer after which the probe starts over, installing again if need be
build_installElectronBuildTools_retrying ==
    /\ script = "build" /\ pc = "gt_install"
    /\ Len(calls) < 6
    /\ log' = Append(log, InstallCommand)
    /\ \E ok \in BOOLEAN, found \in BOOLEAN :
         /\ Run(InstallCommand, ok)
         /\ IF ok
            THEN /\ onPath' = (onPath \/ found)
                 /\ pc' = "gt_which"
                 /\ UNCHANGED <<status, err>>
            ELSE Fail("CalledProcessError: yarn") /\ UNCHANGED onPath
    /\ UNCHANGED <<script, host, cfgRoot, remotes, built, cwd, fsVars, io, loc>>

\* installElectronBuildTools: yarn global add, check=True
build_installElectronBuildTools ==
    /\ script = "build" /\ pc = "gt_install"
    /\ log' = Append(log, InstallCommand)
    /\ \E ok \in BOOLEAN, found \in BOOLEAN :
         /\ Run(InstallCommand, ok)
         /\ IF ok
            THEN \* line 99: the probe calls itself with throw_if_not_found = False
                 /\ onPath' = (onPath \/ found)
                 /\ loc' = [loc EXCEPT !.throw = FALSE]
                 /\ pc' = "gt_which"
                 /\ UNCHANGED <<status, err>>
            ELSE Fail("CalledProcessError: yarn") /\ UNCHANGED <<onPath, loc>>
    /\ UNCHANGED <<script, host, cfgRoot, remotes, built, cwd, fsVars, io>>

\* getElectronBuildToolsPath: `which e`; on failure one install and one more probe
getElectronBuildToolsPath ==
    /\ script = "build" /\ pc = "gt_which"
    /\ Run("which e", onPath) /\ log' = Append(log, "which e")
    /\ IF onPath
       THEN /\ loc' = [loc EXCEPT !.tools = Strip(ToolPath \o "\n"), !.throw = TRUE]
            /\ pc' = "cfg_root"
            /\ UNCHANGED <<status, err>>
       ELSE IF loc.throw
            THEN pc' = "gt_install" /\ UNCHANGED <<status, err, loc>>
            ELSE \* the inner call returns '', the outer call re-raises
                 Fail("CalledProcessError: which") /\ UNCHANGED loc
    /\ UNCHANGED <<script, envVars, cwd, fsVars, io>>

\* getElectronBuildConfiguration: show root, current, depotdir, env
getElectronBuildConfiguration ==
    /\ script = "build"
    /\ \/ /\ pc = "cfg_root"
          /\ Run(loc.tools \o " show root", cfgRoot # "")
          /\ log' = Append(log, loc.tools \o " show root")
          /\ IF cfgRoot # ""
             THEN /\ loc' = [loc EXCEPT !.root = Strip(cfgRoot \o "\n")]
                  /\ pc' = "cfg_current"
                  /\ UNCHANGED <<status, err>>
             ELSE Fail("CalledProcessError: show root") /\ UNCHANGED loc
       \/ /\ pc \in {"cfg_current", "cfg_depotdir", "cfg_env"}
          /\ LET what == SubSeq(pc, 5, Len(pc))
                 cmd  == loc.tools \o " show " \o what
             IN  /\ log' = Append(log, cmd)
                 /\ \E ok \in BOOLEAN :
                      /\ Run(cmd, ok)
                      /\ IF ok
                            THEN /\ pc' = CASE pc = "cfg_current" -> "cfg_depotdir"
                                            [] pc = "cfg_depotdir" -> "cfg_env"
                                            [] OTHER -> "sync"
                                 /\ UNCHANGED <<status, err>>
                            ELSE Fail("CalledProcessError: show " \o what)
          /\ UNCHANGED loc
    /\ UNCHANGED <<script, envVars, cwd, fsVars, io>>

\* the source tree below the configuration root
SubmoduleOf(root) == PathJoin(PathJoin(root, "src"), "electron")
BuildOutDirOf(root) == PathJoin(PathJoin(PathJoin(root, "src"), "out"), "Release")

\* `e sync` checks the vendored framework out again: its remote is the upstream
SyncedRemotes ==
    (SubmoduleOf(cfgRoot) :> [url |-> UpstreamUrl, pushurl |-> ""]) @@ remotes

\* a sync whose exit status is ignored (check=False)
build_synchronizeCode_unchecked ==
    /\ script = "build" /\ pc = "sync"
    /\ log' = Append(log, loc.tools \o " sync -vvvv")
    /\ \E ok \in BOOLEAN :
         /\ Run(loc.tools \o " sync -vvvv", ok)
         /\ IF ok
            THEN /\ remotes' = SyncedRemotes
                 /\ dirs' = dirs \cup {cfgRoot, SubmoduleOf(cfgRoot)}
            ELSE UNCHANGED <<remotes, dirs>>
         /\ pc' = "rg_fetchurl"
         /\ UNCHANGED <<status, err>>
    /\ UNCHANGED <<script, host, onPath, cfgRoot, built, cwd, files, staging, manifest,
                   io, loc>>

\* synchronizeCode: e sync -vvvv, check=True
build_synchronizeCode ==
    /\ script = "build" /\ pc = "sync"
    /\ log' = Append(log, loc.tools \o " sync -vvvv")
    /\ \E ok \in BOOLEAN :
         /\ Run(loc.tools \o " sync -vvvv", ok)
         /\ IF ok
            THEN /\ remotes' = SyncedRemotes
                 /\ dirs' = dirs \cup {cfgRoot, SubmoduleOf(cfgRoot)}
                 /\ pc' = "rg_fetchurl"
                 /\ UNCHANGED <<status, err>>
            ELSE Fail("CalledProcessError: sync") /\ UNCHANGED <<remotes, dirs>>
    /\ UNCHANGED <<script, host, onPath, cfgRoot, built, cwd, files, staging, manifest,
                   io, loc>>

\* what git does in directory d: fails outside a repository, else may fail or succeed
GitOutcomes(d) == IF RepoAt(d) = "" THEN {FALSE} ELSE BOOLEAN

\* git remote set-url origin <fork>
GitSetUrl(d, fork) == [remotes EXCEPT ![RepoAt(d)].url = fork]

\* a redirect that leaves the push URL as it was
GitSetPushUrl_skipped(d, fork) == remotes

\* git remote set-url --push origin <fork>
GitSetPushUrl(d, fork) == [remotes EXCEPT ![RepoAt(d)].pushurl = fork]

\* the URLs `git remote -v` lists for origin
FetchUrl(r) == remotes[r].url
PushUrl(r) == IF remotes[r].pushurl = "" THEN remotes[r].url ELSE remotes[r].pushurl

\* redirectGitOrigin(log_file, fork): set-url, set-url --push, remote -v
build_redirectGitOrigin ==
    /\ script \in {"build", "redirect"}
    /\ LET fork == IF script = "build" THEN descript_electron_fork_ssh ELSE loc.fork IN
       \/ /\ pc = "rg_fetchurl"
          /\ log' = Append(log, "git remote set-url origin " \o fork)
          /\ \E ok \in GitOutcomes(cwd) :
               /\ Run("git remote set-url origin " \o fork, ok)
               /\ IF ok
                  THEN /\ remotes' = GitSetUrl(cwd, fork)
                       /\ pc' = "rg_pushurl"
                       /\ UNCHANGED <<status, err>>
                  ELSE Fail("CalledProcessError: git") /\ UNCHANGED remotes
       \/ /\ pc = "rg_pushurl"
          /\ log' = Append(log, "git remote set-url --push origin " \o fork)
          /\ \E ok \in GitOutcomes(cwd) :
               /\ Run("git remote set-url --push origin " \o fork, ok)
               /\ IF ok
                  THEN /\ remotes' = GitSetPushUrl(cwd, fork)
                       /\ pc' = "rg_verify"
                       /\ UNCHANGED <<status, err>>
                  ELSE Fail("CalledProcessError: git") /\ UNCHANGED remotes
       \/ /\ pc = "rg_verify"
          /\ log' = Append(log, "git remote -v")
          /\ \E ok \in GitOutcomes(cwd) :
               /\ Run("git remote -v", ok)
               /\ IF ok
                  THEN /\ pc' = (IF script = "build" THEN "b_chdir" ELSE "rg_return")
                       /\ UNCHANGED <<status, err>>
                  ELSE Fail("CalledProcessError: git")
          /\ UNCHANGED remotes
    /\ loc' = IF pc' = "rg_return"
              THEN [loc EXCEPT !.returned = Append(@, loc.fork), !.ncalls = @ + 1]
              ELSE loc
    /\ UNCHANGED <<script, host, onPath, cfgRoot, built, cwd, fsVars, io>>

\* main, line 410: os.chdir(root)
build_main_chdir ==
    /\ script = "build" /\ pc = "b_chdir"
    /\ IF loc.root \in dirs
       THEN cwd' = loc.root /\ pc' = "build" /\ UNCHANGED <<status, err>>
       ELSE Fail("FileNotFoundError") /\ UNCHANGED cwd
    /\ UNCHANGED <<script, envVars, fsVars, calls, log, io, loc>>

\* the files a build may have left in its output directory, the executable among them
BuildTrees(exe) ==
    { {[path |-> exe, link |-> FALSE, type |-> MachO]}
      \cup {[path |-> PathJoin(BuildOutDirOf(cfgRoot), x.path), link |-> x.link, type |-> x.type]
              : x \in xs}
      : xs \in {ys \in SUBSET ExtraFiles : Cardinality(ys) <= MaxExtraFiles} }

\* the executables packageSymbols may be told of when it is called on its own,
\* relative to the build's output directory
SymbolExeNames ==
    { "Foo.app/Contents/MacOS/Foo",
      "Foo.app/Contents/Frameworks/Foo.app/Contents/MacOS/Foo",
      "bin/Foo" }

\* the other files such a bundle may hold
SymbolStageFiles ==
    { [path |-> "Foo.app/contents/MacOS/Foo", link |-> FALSE, type |-> MachO],
      [path |-> "Foo.app/Contents/MacOS/helper", link |-> FALSE, type |-> MachO],
      [path |-> "Foo.app/Contents/MacOS/HELPER", link |-> FALSE, type |-> MachO],
      [path |-> "Foo.app/Contents/Frameworks/Foo.dylib", link |-> FALSE, type |-> MachOLib],
      [path |-> "Foo.app/Contents/Frameworks/Foo.app/Contents/MacOS/inner", link |-> FALSE,
       type |-> MachO] }

\* the largest number of files such a bundle holds beside the executable
MaxImages == 2

SymbolTrees(exe) ==
    { {[path |-> exe, link |-> FALSE, type |-> MachO]}
      \cup {[path |-> PathJoin(BuildOutDirOf(cfgRoot), x.path), link |-> x.link, type |-> x.type]
              : x \in xs}
      : xs \in {ys \in SUBSET SymbolStageFiles : Cardinality(ys) <= MaxImages} }

\* the files os.walk may find around the executable
FoundTrees(exe) == IF script = "symbols" THEN SymbolTrees(exe) ELSE BuildTrees(exe)

\* buildElectron, line 198: args
BuildCommand == loc.tools \o " build electron:dist -v"

\* buildElectron with the exit status of the build ignored (check=False)
buildElectron_unchecked ==
    /\ script = "build" /\ pc = "build"
    /\ log' = Append(log, BuildCommand)
    /\ \E ok \in BOOLEAN :
         /\ Run(BuildCommand, ok)
         /\ \E dist \in BOOLEAN :
              files' = IF dist
                       THEN (PathJoin(BuildOutDirOf(cfgRoot), "dist.zip") :> "dist") @@ files
                       ELSE files
         /\ pc' = "ve_outdir"
         /\ UNCHANGED <<status, err>>
    /\ UNCHANGED <<script, envVars, cwd, dirs, staging, manifest, io, loc>>

\* buildElectron: e build electron:dist -v, check=True
buildElectron ==
    /\ script = "build" /\ pc = "build"
    /\ log' = Append(log, BuildCommand)
    /\ \E ok \in BOOLEAN :
         /\ Run(BuildCommand, ok)
         /\ IF ok
            THEN /\ \E dist \in BOOLEAN :
                      files' = IF dist
                               THEN (PathJoin(BuildOutDirOf(cfgRoot), "dist.zip") :> "dist") @@ files
                               ELSE files
                 /\ pc' = "ve_outdir"
                 /\ UNCHANGED <<status, err>>
            ELSE Fail("CalledProcessError: build") /\ UNCHANGED files
    /\ UNCHANGED <<script, envVars, cwd, dirs, staging, manifest, io, loc>>

\* verifyElectronExecutable: show outdir, show exe, then the executable twice
verifyElectronExecutable ==
    /\ script = "build"
    /\ \/ /\ pc = "ve_outdir"
          /\ log' = Append(log, loc.tools \o " show outdir")
          /\ \E ok \in BOOLEAN :
               /\ Run(loc.tools \o " show outdir", ok)
               /\ IF ok
                  THEN /\ loc' = [loc EXCEPT !.outdir = Strip(BuildOutDirOf(cfgRoot) \o "\n")]
                       /\ pc' = "ve_exe"
                       /\ UNCHANGED <<status, err>>
                  ELSE Fail("CalledProcessError: show outdir") /\ UNCHANGED loc
          /\ UNCHANGED built
       \/ /\ pc = "ve_exe"
          /\ log' = Append(log, loc.tools \o " show exe")
          /\ \E ok \in BOOLEAN :
               /\ Run(loc.tools \o " show exe", ok)
               /\ IF ok
                  THEN /\ \E e \in ExeNames :
                            /\ built' = [built EXCEPT !.exe = PathJoin(BuildOutDirOf(cfgRoot), e)]
                            /\ loc' = [loc EXCEPT !.exe = Strip(built'.exe \o "\n")]
                       /\ pc' = "ve_v"
                       /\ UNCHANGED <<status, err>>
                  ELSE Fail("CalledProcessError: show exe") /\ UNCHANGED <<loc, built>>
       \/ /\ pc \in {"ve_v", "ve_a"}
          /\ log' = Append(log, loc.exe \o (IF pc = "ve_v" THEN " -v" ELSE " -a"))
          /\ \E ok \in BOOLEAN :
               /\ Run(loc.exe \o (IF pc = "ve_v" THEN " -v" ELSE " -a"), ok)
               /\ IF ok
                  THEN pc' = (IF pc = "ve_v" THEN "ve_a" ELSE "copy") /\ UNCHANGED <<status, err>>
                  ELSE Fail("CalledProcessError: exe")
          /\ UNCHANGED <<loc, built>>
    /\ UNCHANGED <<script, host, onPath, cfgRoot, remotes, cwd, fsVars, io>>

\* copyElectronDistribution(log_file, src, dest): the name of the copy
DistributionName == ArtifactStem \o ".zip"

\* copyElectronDistribution: shutil.copy2 of dist.zip
copyElectronDistribution ==
    /\ script = "build" /\ pc = "copy"
    /\ LET src_file  == PathJoin(loc.outdir, "dist.zip")
           dest_file == PathJoin(OutDir, DistributionName)
       IN  IF src_file \in DOMAIN files
           THEN /\ files' = (dest_file :> files[src_file]) @@ files
                /\ pc' = "ps_exe"
                /\ UNCHANGED <<status, err>>
           ELSE Fail("FileNotFoundError") /\ UNCHANGED files
    /\ UNCHANGED <<script, envVars, cwd, dirs, staging, manifest, calls, log, io, loc>>

\* the bundle types tried in the opposite order
known_bundles_reversed == <<"bundle", "framework", "app">>

known_bundles == <<"app", "framework", "bundle">>

\* symbolNameFromFile, lines 304-316: the first bundle type, in the order of the
\* list, for which <stem>.<type> is a component of the path; else the base name
RECURSIVE BundleNameOf(_, _)
BundleNameOf(pe_file, types) ==
    IF Len(types) = 0 THEN Basename(pe_file)
    ELSE LET bundle_name == PathStem(pe_file) \o "." \o Head(types) IN
         IF IndexOf(PathParts(pe_file), bundle_name) > 0
         THEN bundle_name
         ELSE BundleNameOf(pe_file, Tail(types))

symbolNameFromFile(pe_file) == BundleNameOf(pe_file, known_bundles) \o ".dSYM"

\* a lookup of <stem>.framework instead of <stem>.app
AppBundleIndex_framework(exe_path) ==
    IndexOf(PathParts(exe_path), PathStem(exe_path) \o ".framework")

\* packageSymbols, line 339: exe_path_parts.index(f'{exe_ref.stem}.app'), 0 for ValueError
AppBundleIndex(exe_path) == IndexOf(PathParts(exe_path), PathStem(exe_path) \o ".app")

\* packageSymbols, lines 340-341: the directory that is walked
ScanRoot(exe_path) == JoinParts(SubSeq(PathParts(exe_path), 1, AppBundleIndex(exe_path)))

SymbolTempFolder == PathJoin(OutDir, "symbol_temp")
SymbolsName == ArtifactStem \o "-symbols" \o ".zip"

\* packageSymbols, lines 331-343: the executable's path and its .app ancestor
packageSymbols_exe ==
    /\ pc = "ps_exe"
    /\ \E ok \in BOOLEAN :
         /\ Run("e show exe", ok)
         /\ IF ~ok THEN Fail("CalledProcessError: show exe") /\ UNCHANGED <<loc, built>>
            ELSE LET exe_path == Strip(built.exe \o "\n") IN
                 IF AppBundleIndex(exe_path) = 0
                 THEN Fail("ValueError") /\ UNCHANGED <<loc, built>>
                 ELSE \E tree \in FoundTrees(built.exe) :
                      LET walked == {f \in tree : Below(f.path, ScanRoot(exe_path))} IN
                      /\ built' = [built EXCEPT !.tree = tree]
                      /\ loc' = [loc EXCEPT !.scan = ScanRoot(exe_path), !.pending = walked,
                                            !.images = {}]
                      /\ pc' = (IF walked = {} THEN "ps_staging" ELSE "ps_walk")
                      /\ UNCHANGED <<status, err>>
    /\ UNCHANGED <<script, host, onPath, cfgRoot, remotes, cwd, fsVars, log, io>>

\* packageSymbols, lines 345-356: one file of the walk, in the order os.walk yields
packageSymbols_walk ==
    /\ pc = "ps_walk"
    /\ \E f \in loc.pending :
         LET rest == loc.pending \ {f}
             next == IF rest = {} THEN "ps_staging" ELSE "ps_walk"
         IN  IF f.link
             THEN /\ loc' = [loc EXCEPT !.pending = rest]
                  /\ pc' = next
                  /\ UNCHANGED <<status, err, calls, log>>
             ELSE \E ok \in BOOLEAN :
                       /\ Run("file -b " \o f.path, ok)
                       /\ IF ~ok THEN Fail("CalledProcessError: file") /\ UNCHANGED <<loc, log>>
                          ELSE /\ IF StartsWith(Strip(f.type \o "\n"), "Mach-O")
                                  THEN /\ log' = Append(log, f.path \o "\t" \o f.type)
                                       /\ loc' = [loc EXCEPT !.pending = rest,
                                                             !.images = @ \cup {f.path}]
                                  ELSE /\ log' = log
                                       /\ loc' = [loc EXCEPT !.pending = rest]
                               /\ pc' = next
                               /\ UNCHANGED <<status, err>>
    /\ UNCHANGED <<script, envVars, cwd, fsVars, io>>

\* a staging directory that is reused when it exists (makedirs with exist_ok)
packageSymbols_staging_reused ==
    /\ pc = "ps_staging"
    /\ dirs' = dirs \cup {SymbolTempFolder}
    /\ loc' = [loc EXCEPT !.todo = loc.images]
    /\ pc' = (IF loc.images = {} THEN "ps_archive" ELSE "ps_extract")
    /\ UNCHANGED <<runVars, envVars, cwd, files, staging, manifest, calls, log, io>>

\* packageSymbols, lines 358-361: a fresh staging directory
packageSymbols_staging ==
    /\ pc = "ps_staging"
    /\ dirs' = RmtreeDirs(SymbolTempFolder) \cup {SymbolTempFolder}
    /\ files' = RmtreeFiles(SymbolTempFolder)
    /\ staging' = EmptyMap
    /\ loc' = [loc EXCEPT !.todo = loc.images]
    /\ pc' = (IF loc.images = {} THEN "ps_archive" ELSE "ps_extract")
    /\ UNCHANGED <<runVars, envVars, cwd, manifest, calls, log, io>>

\* a sort in descending order (reverse=True)
FirstInOrder_descending(todo) ==
    {p \in todo : \A q \in todo : ~StrLess(Lower(p), Lower(q))}

\* sorted(pe_files, key=lambda s: str(s).lower()): the images that may come next
FirstInOrder(todo) == {p \in todo : \A q \in todo : ~StrLess(Lower(q), Lower(p))}

\* an extraction whose failure cleans the output directory before it ends the run
packageSymbols_extract_rollback ==
    /\ pc = "ps_extract"
    /\ \E pe_file \in FirstInOrder(loc.todo) :
         LET name == symbolNameFromFile(pe_file)
             symbol_path == PathJoin(SymbolTempFolder, name)
             cmd == "dsymutil " \o pe_file \o " -o " \o symbol_path
             rest == loc.todo \ {pe_file}
         IN  /\ log' = Append(log, cmd)
             /\ \E ok \in BOOLEAN :
                  /\ Run(cmd, ok)
                  /\ IF ok
                     THEN /\ staging' = (name :> pe_file) @@ staging
                          /\ loc' = [loc EXCEPT !.todo = rest]
                          /\ pc' = (IF rest = {} THEN "ps_archive" ELSE "ps_extract")
                          /\ UNCHANGED <<status, err, dirs, files>>
                     ELSE /\ Fail("CalledProcessError: dsymutil")
                          /\ dirs' = RmtreeDirs(OutDir)
                          /\ files' = RmtreeFiles(OutDir)
                          /\ staging' = EmptyMap
                          /\ UNCHANGED loc
    /\ UNCHANGED <<script, envVars, cwd, manifest, io>>

\* packageSymbols, lines 363-371: dsymutil for the next image, check=True
packageSymbols_extract ==
    /\ pc = "ps_extract"
    /\ \E pe_file \in FirstInOrder(loc.todo) :
         LET name == symbolNameFromFile(pe_file)
             symbol_path == PathJoin(SymbolTempFolder, name)
             cmd == "dsymutil " \o pe_file \o " -o " \o symbol_path
             rest == loc.todo \ {pe_file}
         IN  /\ log' = Append(log, cmd)
             /\ \E ok \in BOOLEAN :
                  /\ Run(cmd, ok)
                  /\ IF ok
                     THEN /\ staging' = (name :> pe_file) @@ staging
                          /\ loc' = [loc EXCEPT !.todo = rest]
                          /\ pc' = (IF rest = {} THEN "ps_archive" ELSE "ps_extract")
                          /\ UNCHANGED <<status, err>>
                     ELSE Fail("CalledProcessError: dsymutil") /\ UNCHANGED <<staging, loc>>
    /\ UNCHANGED <<script, envVars, cwd, dirs, files, manifest, io>>

\* packageSymbols, lines 373-378: the archive is written, the staging directory
\* removed; when make_archive raises, the rmtree of line 378 is not reached
packageSymbols_archive ==
    /\ pc = "ps_archive"
    /\ log' = Append(log, "Creating " \o PathJoin(OutDir, ArtifactStem \o "-symbols") \o ".zip")
    /\ \E archived \in BOOLEAN, partial \in BOOLEAN :
         IF archived
         THEN /\ files' = (PathJoin(OutDir, SymbolsName) :> "symbols")
                              @@ RmtreeFiles(SymbolTempFolder)
              /\ dirs' = RmtreeDirs(SymbolTempFolder)
              /\ staging' = EmptyMap
              /\ loc' = [loc EXCEPT !.archived = DOMAIN staging]
              /\ pc' = (IF script = "build" THEN "b_finish" ELSE "ps_return")
              /\ UNCHANGED <<status, err>>
         ELSE /\ Fail("OSError")
              /\ files' = IF partial
                          THEN (PathJoin(OutDir, SymbolsName) :> "symbols") @@ files
                          ELSE files
              /\ UNCHANGED <<dirs, staging, loc>>
    /\ UNCHANGED <<script, envVars, cwd, manifest, calls, io>>

\* a finish that zips the log but leaves the raw text in place
build_main_finish_keeplog ==
    /\ script = "build" /\ pc = "b_finish"
    /\ LET zip == SplitextRoot(loc.logpath) \o ".zip" IN
       files' = (zip :> "logzip") @@ files
    /\ loc' = [loc EXCEPT !.folder = OutDir]
    /\ pc' = "gc_begin"
    /\ UNCHANGED <<runVars, envVars, cwd, dirs, staging, manifest, calls, log, io>>

\* main, lines 420-429: the log is closed, zipped and removed; then the checksums
build_main_finish ==
    /\ script = "build" /\ pc = "b_finish"
    /\ LET zip == SplitextRoot(loc.logpath) \o ".zip" IN
       files' = (zip :> "logzip") @@ [p \in DOMAIN files \ {loc.logpath} |-> files[p]]
    /\ loc' = [loc EXCEPT !.folder = OutDir]
    /\ pc' = "gc_begin"
    /\ UNCHANGED <<runVars, envVars, cwd, dirs, staging, manifest, calls, log, io>>

\* the digest `shasum -a 256` prints for a content: 64 lowercase hex characters
DigestChar(content) ==
    CASE content = "dist" -> "d" [] content = "symbols" -> "5" [] content = "logzip" -> "1"
      [] content = "rawlog" -> "0" [] content = "manifest" -> "f" [] content = "stale" -> "e"
      [] content = "c1" -> "a" [] content = "c2" -> "b" [] OTHER -> "9"

Sha256Hex(content) == Rep(DigestChar(content), 64)

\* generateChecksum, lines 255-262: the manifest line of one file
ChecksumLine(path) ==
    LET output   == Sha256Hex(files[path]) \o "  " \o path \o "\n"
        checksum == Strip(output)
    IN  Replace(checksum, PathJoin(Dirname(path), ""), "*")

\* generateChecksum, lines 250-253: the walk starts with an empty set
generateChecksum_begin ==
    /\ pc = "gc_begin"
    /\ loc' = [loc EXCEPT !.sums = {}, !.pending = {p \in DOMAIN files : Below(p, loc.folder)}]
    /\ pc' = "gc_walk"
    /\ UNCHANGED <<runVars, envVars, cwd, fsVars, calls, log, io>>

\* generateChecksum, lines 253-263: shasum for one file of the walk
generateChecksum_walk ==
    /\ pc = "gc_walk"
    /\ \E p \in loc.pending :
         /\ \E ok \in BOOLEAN :
              /\ Run("shasum -a 256 " \o p, ok)
              /\ IF ok
                 THEN /\ loc' = [loc EXCEPT !.sums = @ \cup {ChecksumLine(p)},
                                            !.pending = @ \ {p}]
                      /\ UNCHANGED <<status, err, pc>>
                 ELSE Fail("CalledProcessError: shasum") /\ UNCHANGED loc
    /\ UNCHANGED <<script, envVars, cwd, fsVars, log, io>>

\* generateChecksum, lines 265-270: the set is written, one line each
generateChecksum_write ==
    /\ pc = "gc_walk" /\ loc.pending = {}
    /\ files' = (PathJoin(loc.folder, "SHAMSUM256.txt") :> "manifest") @@ files
    /\ manifest' = loc.sums
    /\ status' = "ok"
    /\ pc' = "exit"
    /\ UNCHANGED <<script, err, envVars, cwd, dirs, staging, calls, log, io, loc>>

(***************************************************************************)
(* bootstrap-electron.py                                                   *)
(***************************************************************************)

\* the answers the user may type at each prompt
OverrideAnswers == {"", "Y", "n"}
PathAnswers == {"", "/w/e1"}
OverwriteAnswers == {"", "y", "no"}
ConfigAnswers == {"", "testing"}
ForkAnswers == {"", "1", "2", "7", "x"}
CustomForkAnswers == {"", "git@example.com:fork.git"}
BranchAnswers == {"", "main", "nope"}

\* the branches origin may turn out to have after the fetch
RemoteBranches == {descript_default_branch, "main"}

\* the largest number of prompts answered in one run
MaxPrompts == 5

\* input(prompt): the prompt is shown and answered
Ask(kind, answer) == io' = Append(io, <<kind, answer>>)
CanAsk == Len(io) < MaxPrompts

\* os.path.expanduser
Expanduser(path) ==
    IF StartsWith(path, "~") THEN HomeDir \o SubSeq(path, 2, Len(path)) ELSE path

Digits == "0123456789"

\* str.isnumeric() for ASCII input
IsNumeric(s) == Len(s) > 0 /\ \A i \in 1..Len(s) : FindFrom(Digits, Ch(s, i), 1) > 0

\* int(s) for a string of digits
RECURSIVE IntOf(_)
IntOf(s) ==
    IF Len(s) = 0 THEN 0
    ELSE 10 * IntOf(SubSeq(s, 1, Len(s) - 1)) + (FindFrom(Digits, Ch(s, Len(s)), 1) - 1)

\* installElectronBuildTools: yarn global add, check=True
bootstrap_installElectronBuildTools ==
    /\ script = "bootstrap" /\ pc = "st_install"
    /\ log' = Append(log, "yarn global add @electron/build-tools@1.0.4")
    /\ \E ok \in BOOLEAN, found \in BOOLEAN :
         /\ Run("yarn global add @electron/build-tools@1.0.4", ok)
         /\ IF ok
            THEN \* line 59: the probe calls itself with throw_if_not_found = False
                 /\ onPath' = (onPath \/ found)
                 /\ loc' = [loc EXCEPT !.throw = FALSE]
                 /\ pc' = "st_which"
                 /\ UNCHANGED <<status, err>>
            ELSE Fail("CalledProcessError: yarn") /\ UNCHANGED <<onPath, loc>>
    /\ UNCHANGED <<script, host, cfgRoot, remotes, built, cwd, fsVars, io>>

\* setupElectronBuildTools: `which e`; on failure one install and one more probe
setupElectronBuildTools ==
    /\ script = "bootstrap" /\ pc = "st_which"
    /\ Run("which e", onPath) /\ log' = Append(log, "which e")
    /\ IF onPath
       THEN /\ loc' = [loc EXCEPT !.tools = Strip(ToolPath \o "\n"), !.throw = TRUE]
            /\ pc' = "er_query"
            /\ UNCHANGED <<status, err>>
       ELSE IF loc.throw
            THEN pc' = "st_install" /\ UNCHANGED <<status, err, loc>>
            ELSE \* the inner call returns '', the outer call re-raises
                 Fail("CalledProcessError: which") /\ UNCHANGED loc
    /\ UNCHANGED <<script, envVars, cwd, fsVars, io>>

\* setupElectronBuildConfiguration, lines 115-129: one query of the root
setupElectronBuildConfiguration_query ==
    /\ pc = "er_query"
    /\ Run("e show root", cfgRoot # "") /\ log' = Append(log, "e show root")
    /\ IF cfgRoot # ""
       THEN /\ loc' = [loc EXCEPT !.root = Strip(cfgRoot \o "\n")]
            /\ pc' = (IF loc.offer THEN "er_override" ELSE "er_current")
       ELSE \* line 128: initializeElectronSource() in the except branch
            /\ loc' = [loc EXCEPT !.root = "", !.force = FALSE, !.caught = FALSE, !.path = ""]
            /\ pc' = "ie_path"
    /\ UNCHANGED <<runVars, envVars, cwd, fsVars, io>>

\* an override prompt whose answer is not looked at: the source is initialized anew
setupElectronBuildConfiguration_override_forced ==
    /\ pc = "er_override" /\ CanAsk
    /\ \E override \in OverrideAnswers :
         /\ Ask("override", override)
         /\ loc' = [loc EXCEPT !.offer = FALSE, !.force = TRUE, !.caught = TRUE, !.path = ""]
         /\ pc' = "ie_path"
    /\ UNCHANGED <<runVars, envVars, cwd, fsVars, calls, log>>

\* an accepted override that leaves should_offer_override_once set
setupElectronBuildConfiguration_override_reoffering ==
    /\ pc = "er_override" /\ CanAsk
    /\ \E override \in OverrideAnswers :
         /\ Ask("override", override)
         /\ IF Len(override) > 0 /\ Lower(override) = "y"
            THEN /\ loc' = [loc EXCEPT !.force = TRUE, !.caught = TRUE, !.path = ""]
                 /\ pc' = "ie_path"
            ELSE /\ pc' = "er_current"
                 /\ UNCHANGED loc
    /\ UNCHANGED <<runVars, envVars, cwd, fsVars, calls, log>>

\* setupElectronBuildConfiguration, lines 121-126: the override is offered
setupElectronBuildConfiguration_override ==
    /\ pc = "er_override" /\ CanAsk
    /\ \E override \in OverrideAnswers :
         /\ Ask("override", override)
         /\ IF Len(override) > 0 /\ Lower(override) = "y"
            THEN \* line 125: initializeElectronSource(force=True), inside the try
                 /\ loc' = [loc EXCEPT !.offer = FALSE, !.force = TRUE, !.caught = TRUE,
                                       !.path = ""]
                 /\ pc' = "ie_path"
            ELSE /\ pc' = "er_current"
                 /\ UNCHANGED loc
    /\ UNCHANGED <<runVars, envVars, cwd, fsVars, calls, log>>

\* initializeElectronSource, lines 74-81: a path is asked for and created
initializeElectronSource_path ==
    /\ pc = "ie_path" /\ CanAsk
    /\ \E answer \in PathAnswers :
         LET path == Expanduser(IF Len(answer) = 0 THEN "~/electron" ELSE answer) IN
         /\ Ask("path", answer)
         /\ loc' = [loc EXCEPT !.path = path]
         /\ IF path \in dirs \cup DOMAIN files
            THEN pc' = "ie_overwrite" /\ UNCHANGED dirs
            ELSE pc' = "ie_config" /\ dirs' = dirs \cup {path}
    /\ UNCHANGED <<runVars, envVars, cwd, files, staging, manifest, calls, log>>

\* initializeElectronSource, lines 82-87: the path exists already
initializeElectronSource_overwrite ==
    /\ pc = "ie_overwrite" /\ CanAsk
    /\ \E overwrite \in OverwriteAnswers :
         /\ Ask("overwrite", overwrite)
         /\ IF Len(overwrite) = 0 \/ Lower(overwrite) = "y"
            THEN /\ dirs' = RmtreeDirs(loc.path)
                 /\ files' = RmtreeFiles(loc.path)
                 /\ pc' = "ie_config"
                 /\ UNCHANGED loc
            ELSE /\ loc' = [loc EXCEPT !.path = ""]
                 /\ pc' = "ie_path"
                 /\ UNCHANGED <<dirs, files>>
    /\ UNCHANGED <<runVars, envVars, cwd, staging, manifest, calls, log>>

\* initializeElectronSource, lines 89-94: the configuration name is asked for
initializeElectronSource_config ==
    /\ pc = "ie_config" /\ CanAsk
    /\ \E answer \in ConfigAnswers :
         /\ Ask("config", answer)
         /\ loc' = [loc EXCEPT !.config = IF Len(answer) = 0 THEN "release" ELSE answer]
    /\ pc' = "ie_init"
    /\ UNCHANGED <<runVars, envVars, cwd, fsVars, calls, log>>

\* initializeElectronSource, lines 96-100: the arguments of e init
InitCommand ==
    "e init " \o loc.config \o " -i " \o loc.config
        \o (IF loc.force THEN " --force" ELSE "") \o " --root " \o loc.path

\* initializeElectronSource, lines 96-103: e init, check=True.  A failure raised
\* inside the try of line 118 is caught at line 127, which initializes again
initializeElectronSource_init ==
    /\ pc = "ie_init"
    /\ log' = Append(log, InitCommand)
    /\ \E ok \in BOOLEAN :
         /\ Run(InitCommand, ok)
         /\ IF ok
            THEN /\ cfgRoot' = loc.path
                 /\ loc' = [loc EXCEPT !.root = "", !.caught = FALSE]
                 /\ pc' = "er_query"
                 /\ UNCHANGED <<status, err>>
            ELSE IF loc.caught
                 THEN /\ loc' = [loc EXCEPT !.root = "", !.force = FALSE, !.caught = FALSE,
                                            !.path = ""]
                      /\ pc' = "ie_path"
                      /\ UNCHANGED <<status, err, cfgRoot>>
                 ELSE Fail("CalledProcessError: init") /\ UNCHANGED <<cfgRoot, loc>>
    /\ UNCHANGED <<script, host, onPath, remotes, built, cwd, fsVars, io>>

\* setupElectronBuildConfiguration, lines 131-143: the diagnostics, then the root
setupElectronBuildConfiguration_show ==
    /\ pc \in {"er_current", "er_depotdir", "er_env"}
    /\ LET cmd == "e show " \o SubSeq(pc, 4, Len(pc)) IN
       /\ log' = Append(log, cmd)
       /\ \E ok \in BOOLEAN :
            /\ Run(cmd, ok)
            /\ IF ~ok THEN Fail("CalledProcessError: " \o cmd) /\ UNCHANGED loc
               ELSE /\ UNCHANGED <<status, err>>
                    /\ IF pc = "er_env"
                       THEN /\ loc' = [loc EXCEPT !.returned = Append(@, loc.root),
                                                  !.ncalls = @ + 1]
                            /\ pc' = (IF script = "bootstrap" THEN "bs_sync" ELSE "er_return")
                       ELSE /\ pc' = (IF pc = "er_current" THEN "er_depotdir" ELSE "er_env")
                            /\ UNCHANGED loc
    /\ UNCHANGED <<script, envVars, cwd, fsVars, io>>

\* synchronizeCode: e sync -vvvv, check=True
bootstrap_synchronizeCode ==
    /\ script = "bootstrap" /\ pc = "bs_sync"
    /\ log' = Append(log, "e sync -vvvv")
    /\ \E ok \in BOOLEAN :
         /\ Run("e sync -vvvv", ok)
         /\ IF ok
            THEN /\ remotes' = SyncedRemotes
                 /\ dirs' = dirs \cup {cfgRoot, SubmoduleOf(cfgRoot)}
                 /\ pc' = "cf_prompt"
                 /\ UNCHANGED <<status, err>>
            ELSE Fail("CalledProcessError: sync") /\ UNCHANGED <<remotes, dirs>>
    /\ UNCHANGED <<script, host, onPath, cfgRoot, built, cwd, files, staging, manifest,
                   io, loc>>

getElectronSubmodulePath(root) == PathJoin(PathJoin(root, "src"), "electron")

forks == <<descript_electron_fork, descript_electron_fork_ssh>>

\* getCustomElectronFork: a fork is chosen by number, or typed in
getCustomElectronFork ==
    /\ script = "bootstrap" /\ CanAsk
    /\ \/ /\ pc = "cf_prompt"
          /\ \E fork \in ForkAnswers :
               /\ Ask("fork", fork)
               /\ IF Len(fork) = 0
                  THEN loc' = [loc EXCEPT !.fork = descript_electron_fork] /\ pc' = "rb_fetchurl"
                  ELSE IF ~IsNumeric(fork) \/ IntOf(fork) > Len(forks)
                  THEN UNCHANGED <<loc, pc>>
                  ELSE IF IntOf(fork) < Len(forks)
                  THEN loc' = [loc EXCEPT !.fork = forks[IntOf(fork) + 1]] /\ pc' = "rb_fetchurl"
                  ELSE pc' = "cf_custom" /\ UNCHANGED loc
       \/ /\ pc = "cf_custom"
          /\ \E fork \in CustomForkAnswers :
               /\ Ask("custom fork", fork)
               /\ loc' = [loc EXCEPT !.fork = fork]
               /\ pc' = (IF Len(fork) = 0 THEN "cf_prompt" ELSE "rb_fetchurl")
    /\ UNCHANGED <<runVars, envVars, cwd, fsVars, calls, log>>

\* redirectGitOrigin(electron_path, fork): chdir, set-url, set-url --push, remote -v
bootstrap_redirectGitOrigin ==
    /\ script \in {"bootstrap", "redirect"}
    /\ LET electron_path == getElectronSubmodulePath(loc.root)
           fork == loc.fork
       IN
       \/ /\ pc = "rb_fetchurl"
          /\ IF electron_path \notin dirs
             THEN Fail("FileNotFoundError") /\ UNCHANGED <<cwd, remotes, calls, log>>
             ELSE /\ cwd' = electron_path
                  /\ log' = Append(log, "git remote set-url origin " \o fork)
                  /\ \E ok \in GitOutcomes(electron_path) :
                       /\ Run("git remote set-url origin " \o fork, ok)
                       /\ IF ok
                          THEN /\ remotes' = GitSetUrl(electron_path, fork)
                               /\ pc' = "rb_pushurl"
                               /\ UNCHANGED <<status, err>>
                          ELSE Fail("CalledProcessError: git") /\ UNCHANGED remotes
       \/ /\ pc = "rb_pushurl"
          /\ log' = Append(log, "git remote set-url --push origin " \o fork)
          /\ \E ok \in GitOutcomes(cwd) :
               /\ Run("git remote set-url --push origin " \o fork, ok)
               /\ IF ok
                  THEN /\ remotes' = GitSetPushUrl(cwd, fork)
                       /\ pc' = "rb_verify"
                       /\ UNCHANGED <<status, err>>
                  ELSE Fail("CalledProcessError: git") /\ UNCHANGED remotes
          /\ UNCHANGED cwd
       \/ /\ pc = "rb_verify"
          /\ log' = Append(log, "git remote -v")
          /\ \E ok \in GitOutcomes(cwd) :
               /\ Run("git remote -v", ok)
               /\ IF ok
                  THEN /\ pc' = (IF script = "bootstrap" THEN "fp_fetch" ELSE "rb_return")
                       /\ UNCHANGED <<status, err>>
                  ELSE Fail("CalledProcessError: git")
          /\ UNCHANGED <<cwd, remotes>>
    /\ loc' = IF pc' = "rb_return"
              THEN [loc EXCEPT !.returned = Append(@, loc.fork), !.ncalls = @ + 1]
              ELSE loc
    /\ UNCHANGED <<script, host, onPath, cfgRoot, built, fsVars, io>>

\* fetchAndPullGit, lines 241-245: chdir, git fetch, check=True
fetchAndPullGit_fetch ==
    /\ pc = "fp_fetch"
    /\ cwd' = getElectronSubmodulePath(loc.root)
    /\ log' = Append(log, "git fetch")
    /\ \E ok \in BOOLEAN :
         /\ Run("git fetch", ok)
         /\ IF ok
            THEN /\ \E found \in SUBSET RemoteBranches :
                      loc' = [loc EXCEPT !.branches = found, !.branch = ""]
                 /\ pc' = "fp_prompt"
                 /\ UNCHANGED <<status, err>>
            ELSE Fail("CalledProcessError: git fetch") /\ UNCHANGED loc
    /\ UNCHANGED <<script, envVars, fsVars, io>>

\* fetchAndPullGit, lines 249-251: a branch is asked for, '' meaning the default
fetchAndPullGit_prompt ==
    /\ pc = "fp_prompt" /\ CanAsk
    /\ \E answer \in BranchAnswers :
         /\ Ask("branch", answer)
         /\ loc' = [loc EXCEPT !.branch =
                        IF Len(answer) = 0 THEN descript_default_branch ELSE answer]
    /\ pc' = "fp_probe"
    /\ UNCHANGED <<runVars, envVars, cwd, fsVars, calls, log>>

\* a probe whose result is not looked at
fetchAndPullGit_probe_unchecked ==
    /\ pc = "fp_probe"
    /\ LET cmd == "git show-branch remotes/origin/" \o loc.branch IN
       Run(cmd, loc.branch \in loc.branches) /\ log' = Append(log, cmd)
    /\ pc' = "fp_checkout"
    /\ UNCHANGED <<runVars, envVars, cwd, fsVars, io, loc>>

\* a probe whose failure is not caught: the CalledProcessError ends the run
fetchAndPullGit_probe_fatal ==
    /\ pc = "fp_probe"
    /\ LET cmd == "git show-branch remotes/origin/" \o loc.branch IN
       Run(cmd, loc.branch \in loc.branches) /\ log' = Append(log, cmd)
    /\ IF loc.branch \in loc.branches
       THEN pc' = "fp_checkout" /\ UNCHANGED <<status, err, loc>>
       ELSE Fail("CalledProcessError: git show-branch") /\ UNCHANGED loc
    /\ UNCHANGED <<script, envVars, cwd, fsVars, io>>

\* fetchAndPullGit, lines 252-257: git show-branch remotes/origin/<branch>
fetchAndPullGit_probe ==
    /\ pc = "fp_probe"
    /\ LET cmd == "git show-branch remotes/origin/" \o loc.branch IN
       Run(cmd, loc.branch \in loc.branches) /\ log' = Append(log, cmd)
    /\ IF loc.branch \in loc.branches
       THEN pc' = "fp_checkout" /\ UNCHANGED loc
       ELSE pc' = "fp_prompt" /\ loc' = [loc EXCEPT !.branch = ""]
    /\ UNCHANGED <<runVars, envVars, cwd, fsVars, io>>

\* fetchAndPullGit, lines 259-261: git checkout <branch>, check=True; main returns
fetchAndPullGit_checkout ==
    /\ pc = "fp_checkout"
    /\ log' = Append(log, "git checkout " \o loc.branch)
    /\ \E ok \in BOOLEAN :
         /\ Run("git checkout " \o loc.branch, ok)
         /\ IF ok
            THEN status' = "ok" /\ pc' = "exit" /\ UNCHANGED err
            ELSE Fail("CalledProcessError: git checkout")
    /\ UNCHANGED <<script, envVars, cwd, fsVars, io, loc>>

(***************************************************************************)
(* Specification of the two entry points.                                  *)
(***************************************************************************)

NoBuild == [exe |-> "", tree |-> {}]

\* the repository the script itself lives in
ScriptRepo == Dirname(ScriptDir)

InitCommon ==
    /\ status = "running" /\ err = ""
    /\ cwd = HomeDir
    /\ staging = EmptyMap /\ manifest = {}
    /\ calls = <<>> /\ log = <<>> /\ io = <<>>
    /\ onPath \in BOOLEAN
    /\ cfgRoot \in ConfiguredRoots
    /\ built = NoBuild
    /\ loc = NoLocals

InitBuild ==
    /\ script = "build" /\ pc = "main"
    /\ InitCommon
    /\ host \in [platform : Platforms, machine : Machines]
    /\ remotes = (ScriptRepo :> [url |-> UpstreamUrl, pushurl |-> ""])
    /\ \E stale \in BOOLEAN, version \in VersionTexts \cup {"absent"} :
         /\ dirs = (IF stale THEN {OutDir} ELSE {}) \cup ({cfgRoot} \ {""})
         /\ files = (IF stale THEN (PathJoin(OutDir, "SHAMSUM256.txt") :> "stale") ELSE EmptyMap)
                    @@ (IF version = "absent" THEN EmptyMap ELSE (VersionFile :> version))

NextBuild ==
    \/ build_main_prepare
    \/ build_main_openlog
    \/ getElectronBuildToolsPath
    \/ build_installElectronBuildTools
    \/ getElectronBuildConfiguration
    \/ build_synchronizeCode
    \/ build_redirectGitOrigin
    \/ build_main_chdir
    \/ buildElectron
    \/ verifyElectronExecutable
    \/ copyElectronDistribution
    \/ packageSymbols_exe
    \/ packageSymbols_walk
    \/ packageSymbols_staging
    \/ packageSymbols_extract
    \/ packageSymbols_archive
    \/ build_main_finish
    \/ generateChecksum_begin
    \/ generateChecksum_walk
    \/ generateChecksum_write

\* the directory initializeElectronSource proposes
DefaultRoot == Expanduser("~/electron")

InitBootstrap ==
    /\ script = "bootstrap" /\ pc = "st_which"
    /\ InitCommon
    /\ host \in [platform : {"darwin"}, machine : {"arm64"}]
    /\ remotes = EmptyMap
    /\ files = EmptyMap
    /\ \E pre \in SUBSET {DefaultRoot} : dirs = pre \cup ({cfgRoot} \ {""})

NextBootstrap ==
    \/ setupElectronBuildTools
    \/ bootstrap_installElectronBuildTools
    \/ setupElectronBuildConfiguration_query
    \/ setupElectronBuildConfiguration_override
    \/ initializeElectronSource_path
    \/ initializeElectronSource_overwrite
    \/ initializeElectronSource_config
    \/ initializeElectronSource_init
    \/ setupElectronBuildConfiguration_show
    \/ bootstrap_synchronizeCode
    \/ getCustomElectronFork
    \/ bootstrap_redirectGitOrigin
    \/ fetchAndPullGit_fetch
    \/ fetchAndPullGit_prompt
    \/ fetchAndPullGit_probe
    \/ fetchAndPullGit_checkout

\* the largest number of successive calls of one function
MaxCalls == 2

\* setupElectronBuildConfiguration is called again after it has returned
setupElectronBuildConfiguration_call ==
    /\ script = "config" /\ pc = "er_return"
    /\ loc.ncalls < MaxCalls
    /\ loc' = [loc EXCEPT !.root = "", !.offer = TRUE]
    /\ pc' = "er_query"
    /\ UNCHANGED <<runVars, envVars, cwd, fsVars, calls, log, io>>

\* successive calls of setupElectronBuildConfiguration
InitConfig ==
    /\ script = "config" /\ pc = "er_query"
    /\ InitCommon
    /\ host \in [platform : {"darwin"}, machine : {"arm64"}]
    /\ remotes = EmptyMap
    /\ files = EmptyMap
    /\ \E pre \in SUBSET {DefaultRoot} : dirs = pre \cup ({cfgRoot} \ {""})

NextConfig ==
    \/ setupElectronBuildConfiguration_query
    \/ setupElectronBuildConfiguration_override
    \/ initializeElectronSource_path
    \/ initializeElectronSource_overwrite
    \/ initializeElectronSource_config
    \/ initializeElectronSource_init
    \/ setupElectronBuildConfiguration_show
    \/ setupElectronBuildConfiguration_call

SpecConfig == InitConfig /\ [][NextConfig]_vars

\* redirectGitOrigin is called again after it has returned, with any fork
redirectGitOrigin_call ==
    /\ script = "redirect" /\ pc \in {"rg_return", "rb_return"}
    /\ loc.ncalls < MaxCalls
    /\ \E fork \in {forks[1], forks[2]} : loc' = [loc EXCEPT !.fork = fork]
    /\ pc' = (IF pc = "rg_return" THEN "rg_fetchurl" ELSE "rb_fetchurl")
    /\ UNCHANGED <<runVars, envVars, cwd, fsVars, calls, log, io>>

\* the remotes a repository may have before a redirect: a fresh checkout, or one
\* whose push URL an earlier redirect has set
RemotesBefore ==
    [url : {UpstreamUrl}, pushurl : {"", descript_electron_fork}]

\* successive calls of either script's redirectGitOrigin
InitRedirect ==
    /\ script = "redirect" /\ pc \in {"rg_fetchurl", "rb_fetchurl"}
    /\ status = "running" /\ err = ""
    /\ staging = EmptyMap /\ manifest = {}
    /\ calls = <<>> /\ log = <<>> /\ io = <<>>
    /\ onPath = TRUE /\ cfgRoot = "/w/e1"
    /\ built = NoBuild
    /\ host \in [platform : {"darwin"}, machine : {"arm64"}]
    /\ files = EmptyMap
    /\ cwd = (IF pc = "rg_fetchurl" THEN ScriptDir ELSE HomeDir)
    /\ \E synced \in BOOLEAN, before \in RemotesBefore, fork \in {forks[1], forks[2]} :
         /\ dirs = {cfgRoot} \cup (IF synced THEN {SubmoduleOf(cfgRoot)} ELSE {})
         /\ remotes = (ScriptRepo :> before)
                       @@ (IF synced THEN (SubmoduleOf(cfgRoot) :> before) ELSE EmptyMap)
         /\ loc = [NoLocals EXCEPT !.root = cfgRoot, !.fork = fork]

NextRedirect ==
    \/ build_redirectGitOrigin
    \/ bootstrap_redirectGitOrigin
    \/ redirectGitOrigin_call

SpecRedirect == InitRedirect /\ [][NextRedirect]_vars

\* the files an output directory may hold when generateChecksum is called
TreePaths ==
    { PathJoin(OutDir, "a.zip"),
      PathJoin(OutDir, "b.zip"),
      PathJoin(PathJoin(OutDir, "sub"), "a.zip") }

TreeContents == {"c1", "c2"}

\* generateChecksum(output_folder) on any such tree
InitChecksum ==
    /\ script = "checksum" /\ pc = "gc_begin"
    /\ status = "running" /\ err = ""
    /\ cwd = ScriptDir
    /\ staging = EmptyMap /\ manifest = {}
    /\ calls = <<>> /\ log = <<>> /\ io = <<>>
    /\ onPath = TRUE /\ cfgRoot = ""
    /\ built = NoBuild
    /\ host \in [platform : {"darwin"}, machine : {"arm64"}]
    /\ remotes = EmptyMap
    /\ \E paths \in SUBSET TreePaths :
         /\ files \in [paths -> TreeContents]
         /\ dirs = {OutDir} \cup {Dirname(p) : p \in paths}
    /\ loc = [NoLocals EXCEPT !.folder = OutDir]

NextChecksum ==
    \/ generateChecksum_begin
    \/ generateChecksum_walk
    \/ generateChecksum_write

SpecChecksum == InitChecksum /\ [][NextChecksum]_vars

\* the directories and file names the paths given to symbolNameFromFile are made of
SymbolDirs == {"Foo.app", "Foo.framework", "Foo.bundle", "Bar.app", "bin"}
SymbolFiles == {"Foo", "Foo.dylib", "helper", "Foo.app", "Foo.tar.gz"}
MaxDepth == 2

SymbolDirSeqs == UNION {[1..n -> SymbolDirs] : n \in 0..MaxDepth}

\* the path of file name under the directories ds of /b
RECURSIVE SymbolPath(_, _)
SymbolPath(ds, name) ==
    IF Len(ds) = 0 THEN name ELSE PathJoin(Head(ds), SymbolPath(Tail(ds), name))

\* symbolNameFromFile(pe_file) is called
symbolNameFromFile_call ==
    /\ script = "symbolname" /\ pc = "sn_call"
    /\ loc' = [loc EXCEPT !.returned = <<symbolNameFromFile(loc.path)>>]
    /\ pc' = "sn_return"
    /\ status' = "ok"
    /\ UNCHANGED <<script, err, envVars, cwd, fsVars, calls, log, io>>

\* symbolNameFromFile on any such path
InitSymbolName ==
    /\ script = "symbolname" /\ pc = "sn_call"
    /\ status = "running" /\ err = ""
    /\ cwd = ScriptDir
    /\ dirs = {} /\ files = EmptyMap
    /\ staging = EmptyMap /\ manifest = {}
    /\ calls = <<>> /\ log = <<>> /\ io = <<>>
    /\ onPath = TRUE /\ cfgRoot = ""
    /\ built = NoBuild
    /\ host \in [platform : {"darwin"}, machine : {"arm64"}]
    /\ remotes = EmptyMap
    /\ \E ds \in SymbolDirSeqs, name \in SymbolFiles :
         loc = [NoLocals EXCEPT !.path = PathJoin("/b", SymbolPath(ds, name))]

NextSymbolName == symbolNameFromFile_call

SpecSymbolName == InitSymbolName /\ [][NextSymbolName]_vars

\* packageSymbols(log_file, dest) is called on any such bundle, with or without a
\* staging directory left in dest by an earlier run
InitSymbols ==
    /\ script = "symbols" /\ pc = "ps_exe"
    /\ status = "running" /\ err = ""
    /\ cwd = "/w/e1" /\ cfgRoot = "/w/e1" /\ onPath = TRUE
    /\ manifest = {}
    /\ calls = <<>> /\ log = <<>> /\ io = <<>>
    /\ host \in [platform : {"darwin"}, machine : {"arm64"}]
    /\ remotes = EmptyMap
    /\ \E e \in SymbolExeNames :
         built = [exe |-> PathJoin(BuildOutDirOf(cfgRoot), e), tree |-> {}]
    /\ \E stale \in BOOLEAN :
         /\ dirs = {cfgRoot, OutDir} \cup (IF stale THEN {SymbolTempFolder} ELSE {})
         /\ files = (VersionFile :> "13.1.6\n")
                     @@ (IF stale THEN (PathJoin(SymbolTempFolder, "old.dSYM") :> "stale")
                                  ELSE EmptyMap)
         /\ staging = (IF stale THEN ("old.dSYM" :> "/old/image") ELSE EmptyMap)
    /\ loc = NoLocals

NextSymbols ==
    \/ packageSymbols_exe
    \/ packageSymbols_walk
    \/ packageSymbols_staging
    \/ packageSymbols_extract
    \/ packageSymbols_archive

SpecSymbols == InitSymbols /\ [][NextSymbols]_vars

\* fetchAndPullGit(electron_path, fork) is called on a synced and redirected
\* submodule, whatever branches its origin turns out to have
InitBranch ==
    /\ script = "branch" /\ pc = "fp_fetch"
    /\ status = "running" /\ err = ""
    /\ cfgRoot = "/w/e1" /\ onPath = TRUE
    /\ cwd = SubmoduleOf(cfgRoot)
    /\ dirs = {cfgRoot, SubmoduleOf(cfgRoot)}
    /\ files = EmptyMap
    /\ staging = EmptyMap /\ manifest = {}
    /\ calls = <<>> /\ log = <<>> /\ io = <<>>
    /\ host \in [platform : {"darwin"}, machine : {"arm64"}]
    /\ built = NoBuild
    /\ \E fork \in {forks[1], forks[2]} :
         /\ remotes = (SubmoduleOf(cfgRoot) :> [url |-> fork, pushurl |-> fork])
         /\ loc = [NoLocals EXCEPT !.root = cfgRoot, !.fork = fork]

NextBranch ==
    \/ fetchAndPullGit_fetch
    \/ fetchAndPullGit_prompt
    \/ fetchAndPullGit_probe
    \/ fetchAndPullGit_checkout

SpecBranch == InitBranch /\ [][NextBranch]_vars

\* the script is single-threaded and synchronous: a command that is due is run.
\* Nothing of the kind holds of the prompt, which waits for the user
SpecBranchFair ==
    /\ SpecBranch
    /\ WF_vars(fetchAndPullGit_fetch)
    /\ WF_vars(fetchAndPullGit_probe)
    /\ WF_vars(fetchAndPullGit_checkout)

Init == InitBuild \/ InitBootstrap
Next == NextBuild \/ NextBootstrap

\* both entry points: a run of build-electron.py or of bootstrap-electron.py
Spec == Init /\ [][Next]_vars
SpecBuild == InitBuild /\ [][NextBuild]_vars
SpecBootstrap == InitBootstrap /\ [][NextBootstrap]_vars

(***************************************************************************)
(* Properties                                                              *)
(***************************************************************************)

\* the positions in calls of the commands that satisfy P
CallsWhere(P(_)) == {i \in 1..Len(calls) : P(calls[i])}

IsBuildCall(c) == c.cmd = ToolPath \o " build electron:dist -v"

\* C1: in build-electron.py, once the build invocation has returned a nonzero
\* status no later stage runs: the failed build is the last external command
\* (no executable is verified, no file probed, no symbol extracted, no digest
\* computed), the output directory holds nothing but the raw log (no
\* distribution copy, no symbols archive, no staging directory, no log archive,
\* no manifest), and the process has ended with a nonzero exit status.
C1_FailedBuildStopsPipeline ==
    \A i \in 1..Len(calls) :
        (script = "build" /\ IsBuildCall(calls[i]) /\ ~calls[i].ok)
        => /\ i = Len(calls)
           /\ pc = "exit" /\ status = "failed" /\ ExitStatus # 0
           /\ Entries(OutDir) = {loc.logpath}
           /\ files[loc.logpath] = "rawlog"
           /\ staging = EmptyMap
           /\ manifest = {}

\* C1 witness: a run of build-electron.py whose build invocation failed
C1_Witness ==
    /\ script = "build" /\ status = "failed"
    /\ Len(calls) > 0
    /\ IsBuildCall(calls[Len(calls)]) /\ ~calls[Len(calls)].ok

IsWhich(c) == c.cmd = "which e"
IsInstall(c) == c.cmd = "yarn global add @electron/build-tools@1.0.4"

\* the presence checks and installs of the run, in order
ProbeCalls == SelectSeq(calls, LAMBDA c : IsWhich(c) \/ IsInstall(c))

\* the probe has been called and has ended, by returning or by raising
ProbeEnded ==
    /\ Len(calls) > 0
    /\ pc \notin {"main", "b_openlog", "gt_which", "gt_install", "st_which", "st_install"}

\* the probe returned the path of the tool to main
ProbeReturned ==
    /\ loc.tools = ToolPath
    /\ ~(status = "failed" /\ Len(calls) = Len(ProbeCalls))

\* the exception e left the probe and ended the run
ProbeRaised(e) ==
    /\ status = "failed" /\ err = e /\ pc = "exit"
    /\ Len(calls) = Len(ProbeCalls)

WhichIs(c, ok) == IsWhich(c) /\ c.ok = ok
InstallIs(c, ok) == IsInstall(c) /\ c.ok = ok

\* C2: the toolchain probe, called by main with the default argument.  If the
\* first presence check succeeds the path is returned without any install.  If
\* it fails the installer is invoked exactly once; if the installer succeeds the
\* presence check is repeated exactly once, and the probe returns the path when
\* that second check succeeds and fails with the not-found error when it does
\* not; if the installer itself fails, the probe fails with the installer's
\* error and the presence check is not repeated.  No execution has more than
\* two presence checks or more than one install.
C2_ProbeInstallsOnce ==
    LET p == ProbeCalls IN
    /\ Cardinality(CallsWhere(IsWhich)) <= 2
    /\ Cardinality(CallsWhere(IsInstall)) <= 1
    /\ ProbeEnded =>
         \/ Len(p) = 1 /\ WhichIs(p[1], TRUE) /\ ProbeReturned
         \/ /\ Len(p) = 2 /\ WhichIs(p[1], FALSE) /\ InstallIs(p[2], FALSE)
            /\ ProbeRaised("CalledProcessError: yarn")
         \/ /\ Len(p) = 3 /\ WhichIs(p[1], FALSE) /\ InstallIs(p[2], TRUE)
            /\ WhichIs(p[3], TRUE) /\ ProbeReturned
         \/ /\ Len(p) = 3 /\ WhichIs(p[1], FALSE) /\ InstallIs(p[2], TRUE)
            /\ WhichIs(p[3], FALSE) /\ ProbeRaised("CalledProcessError: which")

\* C2 witness: the first check failed, the install succeeded and the second
\* check failed too, so the probe raised the not-found error
C2_Witness ==
    /\ ProbeEnded /\ Len(ProbeCalls) = 3
    /\ WhichIs(ProbeCalls[3], FALSE)
    /\ ProbeRaised("CalledProcessError: which")

\* C2 as stated: whenever the first presence check fails, the installer is
\* invoked once and the presence check is repeated exactly once, the probe then
\* returning the path or failing with the not-found error
C2_AsStated ==
    LET p == ProbeCalls IN
    /\ Cardinality(CallsWhere(IsWhich)) <= 2
    /\ Cardinality(CallsWhere(IsInstall)) <= 1
    /\ ProbeEnded =>
         \/ Len(p) = 1 /\ WhichIs(p[1], TRUE) /\ ProbeReturned
         \/ /\ Len(p) = 3 /\ WhichIs(p[1], FALSE) /\ IsInstall(p[2])
            /\ WhichIs(p[3], TRUE) /\ ProbeReturned
         \/ /\ Len(p) = 3 /\ WhichIs(p[1], FALSE) /\ IsInstall(p[2])
            /\ WhichIs(p[3], FALSE) /\ ProbeRaised("CalledProcessError: which")

IsCheckout(c) == StartsWith(c.cmd, "git checkout ")
IsBranchProbe(c) == StartsWith(c.cmd, "git show-branch remotes/origin/")

\* the branch name a checkout or a probe was given
CheckoutBranch(c) == SubSeq(c.cmd, Len("git checkout ") + 1, Len(c.cmd))
ProbedBranch(c) == SubSeq(c.cmd, Len("git show-branch remotes/origin/") + 1, Len(c.cmd))

\* the answers to the branch prompt, and the probes, in order
BranchInputs == SelectSeq(io, LAMBDA a : a[1] = "branch")
BranchProbes == SelectSeq(calls, IsBranchProbe)

\* C3: in fetchAndPullGit, git checkout is invoked at most once, after the last
\* probe of the loop, and only with the branch whose probe, the call just before
\* it, succeeded; a branch whose probe failed is never checked out; and an empty
\* answer is probed as the default branch.
C3_CheckoutOnlyProbedBranch ==
    /\ Cardinality(CallsWhere(IsCheckout)) <= 1
    /\ \A i \in CallsWhere(IsCheckout) :
         /\ i > 1
         /\ IsBranchProbe(calls[i - 1]) /\ calls[i - 1].ok
         /\ ProbedBranch(calls[i - 1]) = CheckoutBranch(calls[i])
         /\ \A j \in CallsWhere(IsBranchProbe) :
              /\ j < i
              /\ ~calls[j].ok => ProbedBranch(calls[j]) # CheckoutBranch(calls[i])
    /\ Len(BranchProbes) <= Len(BranchInputs)
    /\ Len(BranchInputs) <= Len(BranchProbes) + 1
    /\ \A k \in 1..Len(BranchProbes) :
         ProbedBranch(BranchProbes[k]) =
            (IF BranchInputs[k][2] = "" THEN descript_default_branch ELSE BranchInputs[k][2])

\* C3 witness: a branch that does not exist was refused, then an empty answer
\* led to the checkout of the default branch
C3_Witness ==
    /\ Len(BranchProbes) >= 2
    /\ ~BranchProbes[1].ok
    /\ BranchInputs[Len(BranchInputs)][2] = ""
    /\ CallsWhere(IsCheckout) # {}

IsInit(c) == StartsWith(c.cmd, "e init ")

\* an answer that declines the prompt it was given to
Declines(a) ==
    /\ a[1] = "override" => ~(Len(a[2]) > 0 /\ Lower(a[2]) = "y")
    /\ a[1] = "overwrite" => ~(Len(a[2]) = 0 \/ Lower(a[2]) = "y")

\* a configuration root existed when the first call asked for it, and every
\* override or overwrite prompt so far was declined
RootKeptByUser ==
    /\ Len(calls) > 0 /\ calls[1].cmd = "e show root" /\ calls[1].ok
    /\ \A i \in 1..Len(io) : Declines(io[i])

\* C4: when a configuration root exists and the user declines every override
\* and overwrite prompt, successive calls of setupElectronBuildConfiguration
\* return the same root, e init is never invoked, and no step of either call
\* creates or deletes a directory or a file or changes the configured root.
C4_DeclinedSetupIsIdempotent ==
    /\ [](RootKeptByUser =>
            /\ \A i, j \in 1..Len(loc.returned) : loc.returned[i] = loc.returned[j]
            /\ \A i \in 1..Len(loc.returned) : loc.returned[i] = cfgRoot
            /\ CallsWhere(IsInit) = {})
    /\ [][RootKeptByUser' => UNCHANGED <<dirs, files, cfgRoot>>]_vars

\* C4 witness: two calls have returned, every prompt having been declined
C4_Witness == RootKeptByUser /\ Len(loc.returned) = 2 /\ Len(io) = 2

ManifestPath == PathJoin(OutDir, "SHAMSUM256.txt")

\* the files of the output directory tree that generateChecksum walked
WalkedFiles == {p \in DOMAIN files : Below(p, OutDir)} \ {ManifestPath}

HexDigits == "0123456789abcdef"

\* <64 hex chars><two spaces>*<file name>
IsManifestLine(l) ==
    /\ Len(l) > 67
    /\ \A i \in 1..64 : FindFrom(HexDigits, Ch(l, i), 1) > 0
    /\ SubSeq(l, 65, 67) = "  *"
    /\ FindFrom(SubSeq(l, 68, Len(l)), "/", 1) = 0

\* C5: once generateChecksum has returned for an output directory tree of N
\* files, the manifest has exactly N lines, one per file and all different,
\* each of the form <64 hex chars><two spaces>*<file name>.
C5_OneLinePerFile ==
    (script = "checksum" /\ status = "ok")
    => /\ Cardinality(manifest) = Cardinality(WalkedFiles)
       /\ \A l \in manifest : IsManifestLine(l)
       /\ \A p \in WalkedFiles :
            Sha256Hex(files[p]) \o "  *" \o Basename(p) \in manifest

\* the three archives of a run, named by the model's own naming
FinalArchives ==
    { PathJoin(OutDir, DistributionName),
      PathJoin(OutDir, SymbolsName),
      PathJoin(OutDir, ArtifactStem \o "-log.zip") }

\* C6: after a run of build-electron.py that ended without an error the output
\* directory holds exactly four entries: the distribution archive, the symbols
\* archive, the log archive and SHAMSUM256.txt.  The raw log and the staging
\* directory are gone, and the manifest has exactly three lines, one for each
\* archive, none for the raw log and none for the manifest itself.
C6_FinalOutputDirectory ==
    (script = "build" /\ status = "ok")
    => /\ Entries(OutDir) = FinalArchives \cup {ManifestPath}
       /\ Cardinality(Entries(OutDir)) = 4
       /\ loc.logpath \notin DOMAIN files
       /\ SymbolTempFolder \notin dirs
       /\ manifest = { Sha256Hex("dist") \o "  *" \o DistributionName,
                       Sha256Hex("symbols") \o "  *" \o SymbolsName,
                       Sha256Hex("logzip") \o "  *" \o ArtifactStem \o "-log.zip" }
       /\ Cardinality(manifest) = 3

\* C6 witness: a run of build-electron.py that ended without an error
C6_Witness ==
    /\ script = "build" /\ status = "ok" /\ pc = "exit"
    /\ ManifestPath \in DOMAIN files

\* the components and the stem the claim speaks of, for a file name of SymbolFiles
StemOfName(name) ==
    CASE name = "Foo.dylib" -> "Foo"
      [] name = "Foo.app" -> "Foo"
      [] name = "Foo.tar.gz" -> "Foo.tar"
      [] OTHER -> name

ComponentsOf(ds, name) == {ds[i] : i \in 1..Len(ds)} \cup {name}

\* the symbol name the claim gives the file name under the directories ds
ExpectedSymbolName(ds, name) ==
    LET stem == StemOfName(name)
        comps == ComponentsOf(ds, name)
    IN  IF (stem \o ".app") \in comps THEN stem \o ".app.dSYM"
        ELSE IF (stem \o ".framework") \in comps THEN stem \o ".framework.dSYM"
        ELSE IF (stem \o ".bundle") \in comps THEN stem \o ".bundle.dSYM"
        ELSE name \o ".dSYM"

\* C7: symbolNameFromFile returns <stem>.app.dSYM when <stem>.app is a
\* component of the path, else <stem>.framework.dSYM when <stem>.framework is
\* one, else <stem>.bundle.dSYM when <stem>.bundle is one, wherever in the path
\* the components are, and else the base name followed by .dSYM.
C7_SymbolNameOfPath ==
    (script = "symbolname" /\ pc = "sn_return")
    => \A ds \in SymbolDirSeqs, name \in SymbolFiles :
          loc.path = PathJoin("/b", SymbolPath(ds, name))
          => loc.returned = <<ExpectedSymbolName(ds, name)>>

\* C7 witness: a file below a .bundle that is itself below the .app of its stem
C7_Witness ==
    /\ script = "symbolname" /\ pc = "sn_return"
    /\ loc.path = "/b/Foo.app/Foo.bundle/Foo.dylib"
    /\ loc.returned = <<"Foo.app.dSYM">>

\* packageSymbols asked for the executable and got an answer
ExeReported == \E i \in 1..Len(calls) : calls[i].cmd = "e show exe" /\ calls[i].ok

\* packageSymbols failed for want of an enclosing bundle
NoEnclosingBundle == status = "failed" /\ err = "ValueError"

\* packageSymbols went on to scan the bundle
BundleScanned == ExeReported /\ ~NoEnclosingBundle

\* some component of path p, its own file name included, is <stem of p>.app
HasAppComponent(p) ==
    LET parts == PathParts(p)
        app   == PathStem(p) \o ".app"
    IN  \E i \in 1..Len(parts) : parts[i] = app

\* some directory above p is named <stem of p>.app, .framework or .bundle
HasEnclosingContainer(p) ==
    LET parts == PathParts(p)
        stem  == PathStem(p)
        names == {stem \o "." \o known_bundles[k] : k \in 1..Len(known_bundles)}
    IN  \E i \in 1..(Len(parts) - 1) : parts[i] \in names

IsTypeProbe(c) == StartsWith(c.cmd, "file -b ")
IsExtraction(c) == StartsWith(c.cmd, "dsymutil ")

\* nothing of the symbol stage has happened: no file probed, no symbol extracted,
\* no staging directory, no symbols archive
NoSymbolWork ==
    /\ CallsWhere(IsTypeProbe) = {}
    /\ CallsWhere(IsExtraction) = {}
    /\ SymbolTempFolder \notin dirs
    /\ staging = EmptyMap
    /\ PathJoin(OutDir, SymbolsName) \notin DOMAIN files

\* every image extracted so far that no container encloses has its fallback name
SiblingsUseFallback ==
    \A name \in DOMAIN staging :
        ~HasEnclosingContainer(staging[name]) /\ ~HasAppComponent(staging[name])
        => name = Basename(staging[name]) \o ".dSYM"

SiblingExtractedUnderFallback ==
    \E name \in DOMAIN staging :
        ~HasEnclosingContainer(staging[name]) /\ name = Basename(staging[name]) \o ".dSYM"

ExpectedVersion ==
    CASE files[VersionFile] = "13.1.6\n" -> "13.1.6"
      [] files[VersionFile] = " 15.3.1 \nnext\n" -> "15.3.1"
      [] OTHER -> ""

ExpectedArch == CASE host.machine = "x86_64" -> "x64" [] OTHER -> host.machine

\* electron-v{V}-{P}-{A}
ExpectedStem ==
    "electron-v" \o ExpectedVersion \o "-" \o host.platform \o "-" \o ExpectedArch

IsSetFetch(c, fork) == c.cmd = "git remote set-url origin " \o fork
IsSetPush(c, fork) == c.cmd = "git remote set-url --push origin " \o fork
IsRemoteList(c) == c.cmd = "git remote -v"

\* the last three commands are a whole redirect to fork, every step successful
EndsWithRedirect(fork) ==
    LET n == Len(calls) IN
    /\ n >= 3
    /\ IsSetFetch(calls[n - 2], fork) /\ calls[n - 2].ok
    /\ IsSetPush(calls[n - 1], fork) /\ calls[n - 1].ok
    /\ IsRemoteList(calls[n]) /\ calls[n].ok

\* a call of redirectGitOrigin has returned and the next has not begun
RedirectReturned == script = "redirect" /\ pc \in {"rg_return", "rb_return"}

\* a call is under way with the fork the call before it was given
RedirectRepeated ==
    /\ script = "redirect" /\ status = "running"
    /\ Len(loc.returned) > 0
    /\ loc.fork = loc.returned[Len(loc.returned)]
    /\ pc \in {"rg_fetchurl", "rg_pushurl", "rg_verify", "rb_fetchurl", "rb_pushurl", "rb_verify"}

\* C10: when redirectGitOrigin has returned, the fetch URL and the push URL of
\* origin, in the repository git worked in, both equal the fork it was given,
\* and its commands were: set the fetch URL, then set the push URL, then list
\* the remotes.  A further call with the same fork leaves the remotes as they
\* are at every step.
C10_RedirectSetsBothUrls ==
    /\ [](RedirectReturned =>
            LET fork == loc.returned[Len(loc.returned)]
                repo == RepoAt(cwd)
            IN  /\ repo # ""
                /\ FetchUrl(repo) = fork /\ PushUrl(repo) = fork
                /\ remotes[repo].pushurl = fork
                /\ EndsWithRedirect(fork))
    /\ [][RedirectRepeated => remotes' = remotes]_vars

\* C10 witness: the second of two calls with the same fork has returned
C10_Witness ==
    /\ RedirectReturned
    /\ Len(loc.returned) = 2 /\ loc.returned[1] = loc.returned[2]
    /\ Len(calls) = 6

IsDigestCall(c) == StartsWith(c.cmd, "shasum ")

\* the command lines of the invocations made while the log was open: all but the
\* digests, which generateChecksum computes after main has closed the log
InvokedWhileLogOpen ==
    LET cs == SelectSeq(calls, LAMBDA c : ~IsDigestCall(c)) IN
    [i \in 1..Len(cs) |-> cs[i].cmd]

\* the elements of a occur in b, in the order of a
RECURSIVE IsSubsequence(_, _)
IsSubsequence(a, b) ==
    IF Len(a) = 0 THEN TRUE
    ELSE IF Len(b) = 0 THEN FALSE
    ELSE IF Head(a) = Head(b) THEN IsSubsequence(Tail(a), Tail(b))
    ELSE IsSubsequence(a, Tail(b))

IsPrefix(a, b) == Len(a) <= Len(b) /\ SubSeq(b, 1, Len(a)) = a

\* C11: in build-electron.py every external process invoked while the log is
\* open has its command line in the log by the time it has run, the entries
\* stand in the order of the invocations, and no step removes or rewrites an
\* entry: the log only grows at its end.
C11_EveryInvocationLogged ==
    /\ [](script = "build" => IsSubsequence(InvokedWhileLogOpen, log))
    /\ [][script = "build" => IsPrefix(log, log')]_vars

\* the positions in io of the override prompts
OverridePrompts == {i \in 1..Len(io) : io[i][1] = "override"}

\* the run is inside initializeElectronSource
InInitialization == pc \in {"ie_path", "ie_overwrite", "ie_config", "ie_init"}

IsForcedInit(c) == IsInit(c) /\ FindFrom(c.cmd, " --force ", 1) > 0

\* C12: within one call of setupElectronBuildConfiguration the override prompt
\* is shown at most once.  When it is declined the queried root is accepted: the
\* loop is left with that root, no path, overwrite or configuration prompt
\* follows, and that root is what the call returns.  When it is accepted the
\* offer is withdrawn for the rest of the call, initializeElectronSource is
\* entered with force set, its e init carries --force, and e init is never
\* forced without an accepted override.
C12_OverrideOfferedOnce ==
    /\ [](/\ Cardinality(OverridePrompts) <= 1
          /\ \A i \in OverridePrompts :
               IF Declines(io[i])
               THEN /\ \A j \in (i + 1)..Len(io) :
                         io[j][1] \notin {"override", "path", "overwrite", "config"}
                    /\ ~InInitialization /\ pc \notin {"er_query", "er_override"}
                    /\ cfgRoot # "" /\ loc.root = cfgRoot
                    /\ \A k \in 1..Len(loc.returned) : loc.returned[k] = cfgRoot
                    /\ CallsWhere(IsForcedInit) = {}
               ELSE /\ ~loc.offer
                    /\ i < Len(io) => io[i + 1][1] = "path"
                    /\ (InInitialization /\ loc.caught) => loc.force
          /\ CallsWhere(IsForcedInit) # {} => \E i \in OverridePrompts : ~Declines(io[i]))
    /\ [][(pc = "ie_init" /\ loc.force) => IsForcedInit(calls'[Len(calls')])]_vars

\* C12 witness: the override was accepted, the forced e init succeeded and the
\* next query of the root went on to the diagnostics without a second offer
C12_Witness ==
    /\ script = "bootstrap" /\ pc = "er_current"
    /\ \E i \in OverridePrompts : ~Declines(io[i])
    /\ \E c \in CallsWhere(IsForcedInit) : calls[c].ok /\ c < Len(calls)

\* the directory e init is about to be given as --root exists
InitRootExists == pc = "ie_init" => loc.path \in dirs

\* C13: whenever e init is about to be invoked with --root P, P exists as a
\* directory, newly created or deleted and recreated after a confirmed
\* overwrite; a declined overwrite deletes nothing and leads to a new path
\* prompt.
C13_InitRootExists ==
    /\ [](InitRootExists)
    /\ [][(pc = "ie_overwrite" /\ io' # io /\ Declines(io'[Len(io')]))
            => (pc' = "ie_path" /\ UNCHANGED <<dirs, files>>)]_vars

IsRootQuery(c) == c.cmd = "e show root"

\* C14: in setupElectronBuildConfiguration the only failing command the run
\* survives is the query of the root; a failing e init, forced or not, is the
\* last external command of the run and ends it with that failure, and no
\* prompt is shown after it.
C14_InitFailureIsFatal ==
    /\ [](\A i \in 1..Len(calls) :
            (script = "config" /\ ~calls[i].ok)
            => \/ IsRootQuery(calls[i])
               \/ i = Len(calls) /\ status = "failed" /\ pc = "exit")
    /\ [][(script = "config" /\ Len(calls) > 0 /\ IsInit(calls[Len(calls)])
            /\ ~calls[Len(calls)].ok) => UNCHANGED <<io, calls>>]_vars

\* the extraction loop of packageSymbols has ended without a failure
ExtractionDone == pc \in {"ps_archive", "ps_return", "b_finish"}

\* the retained images from which symbol name n is derived
ImagesNamed(n) == {p \in loc.images : symbolNameFromFile(p) = n}

\* image p comes before image q in the case-insensitive order of the paths
ComesBefore(p, q) == StrLess(Lower(p), Lower(q))

\* what the staging directory held when the loop ended: symbol name -> image
Extracted == IF pc = "ps_archive" THEN DOMAIN staging ELSE loc.archived

\* C15: after the extraction loop the staging directory holds exactly one
\* output for each distinct symbol name derived from the retained images, hence
\* no more outputs than images; while the directory stands, the output under a
\* name is the extraction of an image of that name that no other image of that
\* name follows in the case-insensitive order of the paths; and a collision
\* raises no error: the stage fails in the loop only when an extractor fails.
C15_OneOutputPerName ==
    /\ ExtractionDone =>
         /\ Extracted = {symbolNameFromFile(p) : p \in loc.images}
         /\ Cardinality(Extracted) <= Cardinality(loc.images)
    /\ pc = "ps_archive" =>
         \A n \in DOMAIN staging :
             /\ staging[n] \in ImagesNamed(n)
             /\ \A q \in ImagesNamed(n) : ~ComesBefore(staging[n], q)
    /\ (status = "failed" /\ loc.todo # {})
         => (err = "CalledProcessError: dsymutil" /\ ~calls[Len(calls)].ok)

\* C15 witness: the executable and a library of its bundle share the name
\* Foo.app.dSYM, and the executable, later in the order, is what remains
C15_Witness ==
    /\ pc = "ps_archive"
    /\ Cardinality(loc.images) = 3
    /\ Cardinality(DOMAIN staging) = 2
    /\ \E n \in DOMAIN staging :
         /\ Cardinality(ImagesNamed(n)) = 2
         /\ \E q \in ImagesNamed(n) : ComesBefore(q, staging[n])

\* C16: the set of retained images determines the order in which they are
\* processed: at every turn of the extraction loop exactly one image can be the
\* next, so the logged extractor commands come in one order, and the image that
\* remains under a shared name is the one that all others of that name precede;
\* this for every set of paths, paths that differ only in letter case included.
C16_OrderDeterminedBySet ==
    /\ pc = "ps_extract" => Cardinality(FirstInOrder(loc.todo)) = 1
    /\ pc = "ps_archive" =>
         \A n \in DOMAIN staging :
             \A q \in ImagesNamed(n) \ {staging[n]} : ComesBefore(q, staging[n])

\* the nearest directory above p that is named <stem of p>.app, "" for none
NearestApp(p) ==
    LET parts == PathParts(p)
        app   == PathStem(p) \o ".app"
        found == {i \in 1..(Len(parts) - 1) : parts[i] = app}
    IN  IF found = {} THEN "" ELSE JoinParts(SubSeq(parts, 1, MaxOf(found)))

\* C17: the directory packageSymbols walks is the nearest ancestor of the
\* executable named <exeStem>.app, also when several ancestors carry that name,
\* so every file whose type is probed lies below that ancestor.
C17_ScanRootIsNearestApp ==
    loc.scan # ""
    => /\ loc.scan = NearestApp(built.exe)
       /\ \A i \in CallsWhere(IsTypeProbe) :
            Below(SubSeq(calls[i].cmd, Len("file -b ") + 1, Len(calls[i].cmd)),
                  NearestApp(built.exe))

\* packageSymbols has returned
SymbolsReturned == pc \in {"ps_return", "b_finish"}

\* packageSymbols has ended in a failure of an extraction or of the archiving,
\* that is after it had created the staging directory
SymbolsFailedAfterStaging ==
    status = "failed" /\ err \in {"CalledProcessError: dsymutil", "OSError"}

\* nothing is left of the staging directory
NoStagingDirectory ==
    /\ SymbolTempFolder \notin dirs
    /\ \A p \in dirs \cup DOMAIN files : ~Below(p, SymbolTempFolder)
    /\ staging = EmptyMap

\* the symbol name a logged extraction wrote to
ExtractedTo(c, n) ==
    LET tail == " -o " \o PathJoin(SymbolTempFolder, n) IN
    /\ IsExtraction(c) /\ c.ok
    /\ Len(c.cmd) > Len(tail)
    /\ SubSeq(c.cmd, Len(c.cmd) - Len(tail) + 1, Len(c.cmd)) = tail

\* what a staging directory of an earlier run held is gone before any extraction,
\* and every member of the archive was extracted by this call
NothingStale ==
    /\ pc \in {"ps_extract", "ps_archive"} =>
         /\ \A p \in DOMAIN files : ~Below(p, SymbolTempFolder)
         /\ \A n \in DOMAIN staging : \E i \in 1..Len(calls) : ExtractedTo(calls[i], n)
    /\ \A n \in loc.archived : \E i \in 1..Len(calls) : ExtractedTo(calls[i], n)

\* C18: when packageSymbols returns, having written the archive, nothing is
\* left of the staging directory; when an extraction or the archiving fails the
\* stage ends with the staging directory still in place; and the contents of a
\* staging directory left by an earlier run are deleted before any extraction
\* and never enter the archive.
C18_StagingRemovedOnReturn ==
    /\ SymbolsReturned => NoStagingDirectory
    /\ SymbolsFailedAfterStaging => SymbolTempFolder \in dirs
    /\ NothingStale

\* C18 witness: the second extraction failed and the stage ended with the
\* staging directory holding the first
C18_Witness ==
    /\ SymbolsFailedAfterStaging /\ err = "CalledProcessError: dsymutil"
    /\ DOMAIN staging # {}
    /\ SymbolTempFolder \in dirs

\* C18 as stated: in every way the stage ends once the staging directory has
\* been created, by returning or by a failed extraction or archiving, the
\* staging directory no longer exists; nothing stale enters the archive
C18_AsStated ==
    /\ (SymbolsReturned \/ SymbolsFailedAfterStaging) => NoStagingDirectory
    /\ NothingStale

EndsWith(s, t) == Len(s) >= Len(t) /\ SubSeq(s, Len(s) - Len(t) + 1, Len(s)) = t

\* the commands of each stage that are the same in every run, with the tool as
\* each script names it: the probed path (build), plain e (bootstrap)
ProbeCommands == {"which e", "yarn global add @electron/build-tools@1.0.4"}
ShowCommands ==
    {t \o " show " \o w : t \in {ToolPath, "e"}, w \in {"root", "current", "depotdir", "env"}}
ShowEnvCommands == {ToolPath \o " show env", "e show env"}
SyncCommands == {ToolPath \o " sync -vvvv", "e sync -vvvv"}
DistBuildCommands == {ToolPath \o " build electron:dist -v"}
VerifyShowCommands == {ToolPath \o " show outdir", ToolPath \o " show exe"}

\* the stage of its script that an external command belongs to: 1 toolchain
\* probe, 2 configuration root, 3 source sync, 4 fork redirect, 5 build (build)
\* or branch checkout (bootstrap), 6 executable verification, 8 symbol bundling,
\* 10 checksum generation; the distribution copy (7) and the log compression (9)
\* run no command
StageOf(c) ==
    CASE c.cmd \in ProbeCommands -> 1
      [] c.cmd \in ShowCommands -> 2
      [] c.cmd \in SyncCommands -> 3
      [] c.cmd = "git remote -v" -> 4
      [] c.cmd \in DistBuildCommands \/ c.cmd = "git fetch" -> 5
      [] c.cmd \in VerifyShowCommands -> 6
      [] c.cmd = "e show exe" -> 8
      [] IsInit(c) -> 2
      [] StartsWith(c.cmd, "git remote set-url ") -> 4
      [] IsBranchProbe(c) \/ IsCheckout(c) -> 5
      [] IsTypeProbe(c) \/ IsExtraction(c) -> 8
      [] IsDigestCall(c) -> 10
      [] EndsWith(c.cmd, " -v") \/ EndsWith(c.cmd, " -a") -> 6
      [] OTHER -> 0

\* command c, which succeeded, is the one stage k ends with
EndsStage(k, c) ==
    /\ c.ok
    /\ CASE k = 1 -> c.cmd = "which e"
         [] k = 2 -> c.cmd \in ShowEnvCommands
         [] k = 3 -> c.cmd \in SyncCommands
         [] k = 4 -> c.cmd = "git remote -v"
         [] k = 5 -> c.cmd \in DistBuildCommands
         [] k = 6 -> c.cmd = built.exe \o " -a"
         [] OTHER -> FALSE

\* stage k ran to its last command, which succeeded, before the call at position j
CompletedBefore(k, j) == \E i \in 1..(j - 1) : EndsStage(k, calls[i])

\* the distribution copy, the symbols archive, the log archive are in place
DistributionCopied ==
    VersionFile \in DOMAIN files /\ PathJoin(OutDir, DistributionName) \in DOMAIN files
SymbolsArchived ==
    VersionFile \in DOMAIN files /\ PathJoin(OutDir, SymbolsName) \in DOMAIN files
LogCompressed ==
    /\ loc.logpath \notin DOMAIN files
    /\ SplitextRoot(loc.logpath) \o ".zip" \in DOMAIN files

\* the command of stage s at position j comes in order after one of stage prev
StageInOrder(j, s, prev) ==
    /\ s # 0
    /\ prev <= s
    /\ \A k \in 1..6 : k < s => CompletedBefore(k, j)
    /\ s = 8 => DistributionCopied
    /\ s = 10 => (SymbolsArchived /\ LogCompressed)

\* C19: in both scripts the external commands come in the order of the stages.
\* Of every command, when it has just been invoked: it is of the stage of the
\* command before it or of a later one, and every earlier stage has run to its
\* last command, which succeeded: no redirect before the sync has succeeded, no
\* build before the redirect has verified the remote.  The stages that run no
\* command keep the order too: the distribution copy exists only after the
\* verification, the symbol stage starts only after the copy, and digests are
\* computed only after the symbols archive and the log archive have been
\* written and the raw log removed; bootstrap asks for the fork only after the
\* sync.
C19_StagesInOrder ==
    /\ Len(calls) > 0 =>
         StageInOrder(Len(calls), StageOf(calls[Len(calls)]),
                      IF Len(calls) = 1 THEN 0 ELSE StageOf(calls[Len(calls) - 1]))
    /\ (script = "build" /\ DistributionCopied) => CompletedBefore(6, Len(calls) + 1)
    /\ (script = "bootstrap" /\ \E i \in 1..Len(io) : io[i][1] = "fork")
         => CompletedBefore(3, Len(calls) + 1)

\* C19 witness: a run of build-electron.py that went through every stage
C19_Witness ==
    /\ script = "build" /\ status = "ok"
    /\ CallsWhere(IsDigestCall) # {}
    /\ CallsWhere(IsExtraction) # {}

IsSetUrl(c) == StartsWith(c.cmd, "git remote set-url ")

\* C20: in both scripts, when a git remote set-url command of the redirect has
\* just been invoked (no step changes the working directory between that
\* invocation and the next position of the run), the working directory of the
\* process is the submodule directory <root>/src/electron of the configuration
\* root obtained earlier in the run.
C20_RedirectInSubmodule ==
    (script \in {"build", "bootstrap"} /\ Len(calls) > 0 /\ IsSetUrl(calls[Len(calls)]))
    => /\ loc.root # ""
       /\ cwd = SubmoduleOf(loc.root)

IsFetch(c) == c.cmd = "git fetch"

\* git checkout has been invoked with branch b
CheckoutInvoked(b) == \E i \in CallsWhere(IsCheckout) : CheckoutBranch(calls[i]) = b

\* the user has supplied a name, b with the default applied, that origin has
Supplied(b) == pc = "fp_probe" /\ loc.branch = b /\ b \in loc.branches

\* what holds of the branch loop in every state
BranchLoopSafe ==
    /\ \A i \in CallsWhere(IsBranchProbe) :
         (~calls[i].ok /\ i = Len(calls))
         => /\ status = "running"
            /\ \/ pc = "fp_prompt" /\ loc.branch = ""
                  /\ Len(BranchInputs) = Len(BranchProbes)
               \/ pc = "fp_probe" /\ Len(BranchInputs) = Len(BranchProbes) + 1
    /\ status = "failed" => (IsFetch(calls[Len(calls)]) \/ IsCheckout(calls[Len(calls)]))
    /\ Cardinality(CallsWhere(IsFetch)) = (IF pc = "fp_fetch" THEN 0 ELSE 1)
    /\ Len(BranchInputs) > 0 => (IsFetch(calls[1]) /\ calls[1].ok)
    /\ (pc = "fp_prompt" /\ CanAsk) => ENABLED fetchAndPullGit_prompt
    /\ status = "ok" =>
         /\ IsCheckout(calls[Len(calls)]) /\ calls[Len(calls)].ok
         /\ CheckoutBranch(calls[Len(calls)]) \in loc.branches

\* C21: in fetchAndPullGit a failed existence probe never ends the run: the
\* input is discarded and the prompt is shown again, however many probes have
\* failed before; only a failing fetch or checkout ends the run in failure.
\* git fetch is invoked once, before the first prompt.  Once the user has
\* supplied a name whose probe succeeds, the loop ends and git checkout is
\* invoked with that name; the branch is checked out when that command
\* succeeds, and a failing checkout is fatal.
C21_BranchLoopProgress ==
    /\ [](script = "branch" => BranchLoopSafe)
    /\ \A b \in RemoteBranches :
         (script = "branch" /\ Supplied(b))
            ~> (CheckoutInvoked(b) /\ pc = "exit" /\ status \in {"ok", "failed"})

\* C21 witness: two names were refused, the third was probed with success and
\* checked out
C21_Witness ==
    /\ script = "branch" /\ status = "ok"
    /\ Len(BranchProbes) = 3
    /\ ~BranchProbes[1].ok /\ ~BranchProbes[2].ok /\ BranchProbes[3].ok

\* C21 as stated: once a name whose probe succeeds has been supplied, the loop
\* ends and that name is checked out
C21_AsStated ==
    /\ [](script = "branch" => BranchLoopSafe)
    /\ \A b \in RemoteBranches :
         (script = "branch" /\ Supplied(b))
            ~> (CheckoutInvoked(b) /\ status = "ok")

\* the files and directories of the output directory
OutputFiles == {p \in DOMAIN files : Below(p, OutDir)}
OutputDirs == {d \in dirs : d = OutDir \/ Below(d, OutDir)}

\* the step that ends the run in failure removes and rewrites nothing of the
\* output directory
FailingStepKeeps ==
    (status = "running" /\ status' = "failed")
    => /\ \A p \in OutputFiles : p \in DOMAIN files' /\ files'[p] = files[p]
       /\ \A d \in OutputDirs : d \in dirs'
       /\ manifest' = manifest
       /\ \A n \in DOMAIN staging : n \in DOMAIN staging' /\ staging'[n] = staging[n]

\* once the run has failed nothing is run and nothing is written
NothingAfterFailure ==
    status = "failed" => UNCHANGED <<fsVars, calls, log, status, err>>

\* what the output directory holds after a failed symbol extraction
AfterFailedExtraction ==
    (script = "build" /\ status = "failed" /\ err = "CalledProcessError: dsymutil")
    => /\ DistributionCopied
       /\ files[PathJoin(OutDir, DistributionName)] = "dist"
       /\ loc.logpath \in OutputFiles /\ files[loc.logpath] = "rawlog"
       /\ SplitextRoot(loc.logpath) \o ".zip" \notin DOMAIN files
       /\ PathJoin(OutDir, SymbolsName) \notin DOMAIN files
       /\ ManifestPath \notin DOMAIN files /\ manifest = {}

\* C22: when a stage of build-electron.py fails fatally, the failing step leaves
\* every file and directory of the output directory in place with its content,
\* and after the failure no stage runs or writes anything; after a failing
\* symbol extraction the copied distribution archive and the raw log text file
\* exist, and neither the log archive nor the checksum manifest does.
C22_NoRollbackOnFailure ==
    /\ [][script = "build" => (FailingStepKeeps /\ NothingAfterFailure)]_vars
    /\ [](AfterFailedExtraction)

\* C22 witness: a symbol extraction has failed after another had succeeded,
\* with the distribution archive and the raw log in the output directory
C22_Witness ==
    /\ script = "build" /\ status = "failed" /\ err = "CalledProcessError: dsymutil"
    /\ DOMAIN staging # {}
    /\ DistributionCopied
    /\ loc.logpath \in OutputFiles

====
